---- MODULE Spec2Model ----
(***************************************************************************)
(* Model of the transfer-pricing rule compiler (compile_rules2.py) and of  *)
(* the text utilities of its predecessor (compile_rules.py).               *)
(*                                                                         *)
(* Strings are sequences of one-character strings, so that case folding,   *)
(* stripping and substring search are computed, not assumed.  An optional  *)
(* value (Python None) is the empty sequence None, a present value v is    *)
(* the one-element sequence <<v>>.                                         *)
(***************************************************************************)
EXTENDS Integers, Sequences, FiniteSets, TLC

VARIABLES
    country_map,     \* rows of sheet "0. Iso Codes"
    name_to_region,  \* load_country_map()[0]
    code_to_name,    \* load_country_map()[1]
    countries,       \* the registry: insertion-ordered dict, as a sequence of records with their key
    unmatched,       \* the set `unmatched` of compile_rules
    calls,           \* history: <<token, result>> of every ensure_country call
    fye,             \* the fye argument of compile_rules
    nrows,           \* source rows read so far
    compiled,        \* the document compile_rules returns, None until then
    input_text,      \* the text given to the text utilities of compile_rules.py
    emitted,         \* what the text utility returned, or the records a row produced
    calc_in,         \* the arguments of a direct call of calculate_deadline_from_cit or
                     \* of pack_threshold_row and validate_threshold_data
    cit_order,       \* history: <<country key, record>> of the CIT rows stored, in source order
    cbcr_seen,       \* history: <<country key, record>> of the notification rows read, in source order
    sheet_names,     \* xls.sheet_names: the sheets the workbook has
    raised,          \* the exception compile_rules raised, None if none
    pc               \* position of the running function

vars == <<country_map, name_to_region, code_to_name, countries, unmatched, calls,
          fye, nrows, compiled, input_text, emitted, calc_in, cit_order, cbcr_seen,
          sheet_names, raised, pc>>

------------------------------------------------------------------------------
(* Characters and strings *)

None == <<>>
Some(v) == <<v>>

\* Spreadsheet cells as pandas delivers them: NaN (blank cell), a string, an
\* integer, a float (v is the value in tenths), or Absent (r.get of a column
\* the sheet does not have, Python None).
NaN == [k |-> "nan"]
Absent == [k |-> "none"]
Str(s) == [k |-> "str", s |-> s]
Num(n) == [k |-> "int", v |-> n]
Flt(t) == [k |-> "float", v |-> t]

\* r.get(col)
Cell(r, col) == IF col \in DOMAIN r THEN r[col] ELSE Absent

\* pd.isna(x)
isna(x) == x.k \in {"nan", "none"}

\* bool(x): NaN is truthy, None is not
Truthy(x) ==
    CASE x.k = "none" -> FALSE
      [] x.k = "nan" -> TRUE
      [] x.k = "str" -> x.s # <<>>
      [] OTHER -> x.v # 0

\* a or b
OrCell(a, b) == IF Truthy(a) THEN a ELSE b

UpperOf == [a |-> "A", b |-> "B", c |-> "C", d |-> "D", e |-> "E", f |-> "F",
            g |-> "G", h |-> "H", i |-> "I", j |-> "J", k |-> "K", l |-> "L",
            m |-> "M", n |-> "N", o |-> "O", p |-> "P", q |-> "Q", r |-> "R",
            s |-> "S", t |-> "T", u |-> "U", v |-> "V", w |-> "W", x |-> "X",
            y |-> "Y", z |-> "Z"]

UpperChar(ch) == IF ch \in DOMAIN UpperOf THEN UpperOf[ch] ELSE ch

LowerChar(ch) ==
    IF \E lc \in DOMAIN UpperOf : UpperOf[lc] = ch
    THEN CHOOSE lc \in DOMAIN UpperOf : UpperOf[lc] = ch
    ELSE ch

\* str.upper() / str.lower()
upper(s) == IF s = <<>> THEN <<>> ELSE [i \in 1..Len(s) |-> UpperChar(s[i])]

lower(s) == IF s = <<>> THEN <<>> ELSE [i \in 1..Len(s) |-> LowerChar(s[i])]

IsSpace(ch) == ch \in {" ", "\t", "\n"}

RECURSIVE LStrip(_)
LStrip(s) == IF s # <<>> /\ IsSpace(Head(s)) THEN LStrip(Tail(s)) ELSE s

RECURSIVE RStrip(_)
RStrip(s) ==
    IF s # <<>> /\ IsSpace(s[Len(s)]) THEN RStrip(SubSeq(s, 1, Len(s) - 1)) ELSE s

\* str.strip()
strip(s) == RStrip(LStrip(s))

DigitChars == <<"0", "1", "2", "3", "4", "5", "6", "7", "8", "9">>

IsDigit(ch) == \E i \in 1..10 : DigitChars[i] = ch

DigitVal(ch) == (CHOOSE i \in 1..10 : DigitChars[i] = ch) - 1

\* str(n) for a natural number
RECURSIVE NatToStr(_)
NatToStr(n) ==
    IF n < 10 THEN <<DigitChars[n + 1]>>
    ELSE NatToStr(n \div 10) \o <<DigitChars[(n % 10) + 1]>>

IntToStr(n) == IF n < 0 THEN <<"-">> \o NatToStr(-n) ELSE NatToStr(n)

\* str(x) of a cell
StrOf(x) ==
    CASE x.k = "none" -> <<"N", "o", "n", "e">>
      [] x.k = "nan" -> <<"n", "a", "n">>
      [] x.k = "str" -> x.s
      [] x.k = "int" -> IntToStr(x.v)
      [] OTHER -> (IF x.v < 0 THEN <<"-">> ELSE <<>>)
                  \o NatToStr((IF x.v < 0 THEN -x.v ELSE x.v) \div 10) \o <<".">>
                  \o NatToStr((IF x.v < 0 THEN -x.v ELSE x.v) % 10)

\* clean(x): "" for a missing cell, else str(x).strip()
clean(x) == IF isna(x) THEN <<>> ELSE strip(StrOf(x))

\* value of a run of digits
RECURSIVE DigitsVal(_)
DigitsVal(s) ==
    IF s = <<>> THEN 0
    ELSE 10 * DigitsVal(SubSeq(s, 1, Len(s) - 1)) + DigitVal(s[Len(s)])

AllDigits(s) == s # <<>> /\ \A i \in 1..Len(s) : IsDigit(s[i])

\* float(s) for a string: Some(value in tenths), or None where float raises.
\* Covers [sign] digits [. digit] with surrounding whitespace; every other
\* string used here is one float() rejects.
ParseFloat(s) ==
    LET t    == strip(s)
        neg  == t # <<>> /\ Head(t) = "-"
        body == IF t # <<>> /\ Head(t) \in {"-", "+"} THEN Tail(t) ELSE t
        dot  == {i \in 1..Len(body) : body[i] = "."}
    IN  IF dot = {}
        THEN IF AllDigits(body)
             THEN Some((IF neg THEN -1 ELSE 1) * 10 * DigitsVal(body))
             ELSE None
        ELSE LET i  == CHOOSE j \in dot : TRUE
                 ip == SubSeq(body, 1, i - 1)
                 fp == SubSeq(body, i + 1, Len(body))
             IN  IF AllDigits(ip) /\ AllDigits(fp) /\ Len(fp) = 1
                 THEN Some((IF neg THEN -1 ELSE 1) * (10 * DigitsVal(ip) + DigitsVal(fp)))
                 ELSE None

\* int(f): truncation toward zero of a value in tenths
TruncTenths(t) == IF t >= 0 THEN t \div 10 ELSE -((-t) \div 10)

\* as_float(x): Some(value in tenths) or None
as_float(x) ==
    CASE isna(x) -> None
      [] x.k = "str" -> IF x.s = <<>> THEN None ELSE ParseFloat(x.s)
      [] x.k = "int" -> Some(10 * x.v)
      [] OTHER -> Some(x.v)

\* as_int(x): Some(int(float(x))) or None
as_int(x) ==
    LET f == as_float(x) IN IF f = None THEN None ELSE Some(TruncTenths(f[1]))

\* `v or 0` for an optional integer
OrZero(v) == IF v = None THEN 0 ELSE v[1]

\* `needle in hay` for strings
Contains(hay, needle) ==
    \E i \in 1..(Len(hay) - Len(needle) + 1) :
        SubSeq(hay, i, i + Len(needle) - 1) = needle

------------------------------------------------------------------------------
(* Python dicts with string keys: functions; the empty dict is <<>> *)

EmptyDict == <<>>

DictPut(d, k, v) == [x \in (DOMAIN d) \cup {k} |-> IF x = k THEN v ELSE d[x]]

DictGet(d, k, default) == IF k \in DOMAIN d THEN d[k] ELSE default

------------------------------------------------------------------------------
(* Country / region loading *)

\* One pass of the loop body of load_country_map over row r; maps is
\* [n2r |-> name_to_region, c2n |-> code_to_name].
CountryMapStep(maps, r) ==
    LET nm    == clean(Cell(r, "Country"))
        code3 == clean(Cell(r, "Code_3"))
        reg   == clean(Cell(r, "Region"))
        n2r1  == IF nm # <<>> THEN DictPut(maps.n2r, lower(nm), reg) ELSE maps.n2r
    IN  IF reg = <<>>
        THEN maps
        ELSE IF code3 # <<>>
             THEN [n2r |-> DictPut(n2r1, lower(code3), reg),
                   c2n |-> DictPut(maps.c2n, upper(code3), nm)]
             ELSE [n2r |-> n2r1, c2n |-> maps.c2n]

RECURSIVE CountryMapLoop(_, _)
CountryMapLoop(maps, rows) ==
    IF rows = <<>> THEN maps
    ELSE CountryMapLoop(CountryMapStep(maps, Head(rows)), Tail(rows))

load_country_map(df_country) ==
    CountryMapLoop([n2r |-> EmptyDict, c2n |-> EmptyDict], df_country)

------------------------------------------------------------------------------
(* The registry *)

HasKey(registry, key) == \E i \in 1..Len(registry) : registry[i].key = key

IndexOf(registry, key) == CHOOSE i \in 1..Len(registry) : registry[i].key = key

NewCountry(key, full_name, region) ==
    [key |-> key, name |-> full_name, region |-> region,
     lf_tpd_thresholds |-> <<>>, lf_tpd_deadlines |-> <<>>,
     mf_thresholds |-> <<>>, mf_deadlines |-> <<>>, tp_forms |-> <<>>,
     cbcr |-> None, cit_deadlines |-> <<>>]

\* The name stored in a new record (line 142).
StoredNameTokenMutant(nm, full_name) == nm

StoredName(nm, full_name) == full_name

\* ensure_country: the registry afterwards and the record returned
\* (identified by its key; None when the token is empty).
ensure_country(registry, j_value) ==
    IF j_value = <<>>
    THEN [registry |-> registry, ret |-> None]
    ELSE LET nm        == clean(Str(j_value))
             full_name == DictGet(code_to_name, upper(nm), nm)
             key       == lower(full_name)
             region    == DictGet(name_to_region, lower(nm), <<>>)
         IN  IF HasKey(registry, key)
             THEN [registry |-> registry, ret |-> Some(key)]
             ELSE [registry |-> Append(registry,
                                       NewCountry(key, StoredName(nm, full_name), region)),
                   ret |-> Some(key)]

------------------------------------------------------------------------------
(* Constants of compile_rules2.py *)

\* RequirementStatus.YES_VALUES
YES_VALUES == {<<"y", "e", "s">>, <<"y">>, <<"t", "r", "u", "e">>, <<"1">>}

\* the values pack_threshold_row reads as "not applicable"
NOT_APPLICABLE_VALUES == {<<"n", "o">>, <<"n">>, <<"n", "/", "a">>, <<"f", "a", "l", "s", "e">>, <<"0">>}

\* DocType.LF / MF / FM
DocTypeLF == <<"L", "F">>
DocTypeMF == <<"M", "F">>
DocTypeFM == <<"F", "m">>

\* calendar.month_abbr[1..12] and calendar.month_name[1..12]
month_abbr ==
    << <<"J", "a", "n">>,
       <<"F", "e", "b">>,
       <<"M", "a", "r">>,
       <<"A", "p", "r">>,
       <<"M", "a", "y">>,
       <<"J", "u", "n">>,
       <<"J", "u", "l">>,
       <<"A", "u", "g">>,
       <<"S", "e", "p">>,
       <<"O", "c", "t">>,
       <<"N", "o", "v">>,
       <<"D", "e", "c">> >>

month_full ==
    << <<"J", "a", "n", "u", "a", "r", "y">>,
       <<"F", "e", "b", "r", "u", "a", "r", "y">>,
       <<"M", "a", "r", "c", "h">>,
       <<"A", "p", "r", "i", "l">>,
       <<"M", "a", "y">>,
       <<"J", "u", "n", "e">>,
       <<"J", "u", "l", "y">>,
       <<"A", "u", "g", "u", "s", "t">>,
       <<"S", "e", "p", "t", "e", "m", "b", "e", "r">>,
       <<"O", "c", "t", "o", "b", "e", "r">>,
       <<"N", "o", "v", "e", "m", "b", "e", "r">>,
       <<"D", "e", "c", "e", "m", "b", "e", "r">> >>

\* month_name(m) for an optional integer m
month_name(m) == IF m # None /\ m[1] # 0 /\ 1 <= m[1] /\ m[1] <= 12 THEN month_abbr[m[1]] ELSE <<>>

\* `month_name(m) if m else ""`
MonthNameIf(m) == IF m # None /\ m[1] # 0 THEN month_name(m) ELSE <<>>

------------------------------------------------------------------------------
(* Row packers *)

\* The month a packer stores for the source row's Month field (lines 188/198,
\* 218/226, 237/253): no range check.
StoredMonth(r) == as_int(Cell(r, "Month"))

\* `as_int(r.get("Seq")) or 0`
SeqOf(r) == OrZero(as_int(Cell(r, "Seq")))

pack_threshold_row(r) ==
    LET requirement_applies == clean(Cell(r, "RequirementApplies"))
    IN  [group_id |-> clean(Cell(r, "GroupID")),
         seq |-> SeqOf(r),
         requirement_applies |-> requirement_applies,
         op |-> clean(Cell(r, "ThresholdOperator")),
         amount |-> as_float(Cell(r, "ThresholdAmount")),
         currency |-> clean(Cell(r, "ThresholdCurrency")),
         metric |-> clean(Cell(r, "ThresholdMetric")),
         metric_basis |-> clean(Cell(r, "MetricBasisText")),
         note |-> clean(Cell(r, "DisplayNote")),
         is_applicable |-> IF requirement_applies # <<>>
                           THEN lower(requirement_applies) \notin NOT_APPLICABLE_VALUES
                           ELSE TRUE]

pack_deadline_row(r) ==
    LET m == StoredMonth(r)
    IN  [group_id |-> clean(Cell(r, "GroupID")),
         seq |-> SeqOf(r),
         requirement_type |-> clean(Cell(r, "RequirementType")),
         deadline_kind |-> clean(Cell(r, "DeadlineKind")),
         month |-> m,
         day |-> as_int(Cell(r, "Day")),
         month_name |-> MonthNameIf(m),
         event_anchor |-> clean(Cell(r, "EventAnchor")),
         offset_days |-> as_int(Cell(r, "OffsetDays")),
         offset_months |-> as_int(Cell(r, "OffsetMonths")),
         text |-> clean(Cell(r, "DisplayText"))]

\* dict.update / item assignment: d with the fields of e set
Update(d, e) == [x \in (DOMAIN d) \cup (DOMAIN e) |-> IF x \in DOMAIN e THEN e[x] ELSE d[x]]

pack_form_row(r) ==
    Update(pack_deadline_row(r),
           [name |-> clean(Cell(r, "FormName")),
            included_in_return |-> clean(Cell(r, "IncludedInReturn"))])

pack_cbcr_row(r) ==
    LET m == StoredMonth(r)
    IN  [required |-> clean(Cell(r, "Required")),
         requirement_type |-> clean(Cell(r, "RequirementType")),
         included_in_cit |-> clean(Cell(r, "IncludedInCITReturn")),
         annual |-> clean(Cell(r, "AnnualNotification")),
         single_filer_ok |-> clean(Cell(r, "SingleFilerAllowed")),
         deadline_kind |-> clean(Cell(r, "DeadlineKind")),
         month |-> m,
         day |-> as_int(Cell(r, "Day")),
         month_name |-> MonthNameIf(m),
         event_anchor |-> clean(Cell(r, "EventAnchor")),
         offset_days |-> as_int(Cell(r, "OffsetDays")),
         offset_months |-> as_int(Cell(r, "OffsetMonths")),
         text |-> clean(Cell(r, "DisplayText"))]

N_A == <<"N", "/", "A">>

\* clean(str(v)).upper() != "N/A"
NotNA(v) == upper(strip(StrOf(v))) # N_A

pack_cit_row(r) ==
    LET m == StoredMonth(r)
        offset_months_val ==
            OrCell(OrCell(Cell(r, "OffsetMonths"), Cell(r, "Offset Months")),
                   Cell(r, "offset_months"))
        offset_days_val ==
            OrCell(OrCell(Cell(r, "OffsetDays"), Cell(r, "Offset Days")),
                   Cell(r, "offset_days"))
    IN  [group_id |-> clean(OrCell(OrCell(Cell(r, "GroupID"), Cell(r, "Group ID")),
                                   Cell(r, "group_id"))),
         seq |-> SeqOf(r),
         taxpayer_type |-> clean(OrCell(OrCell(Cell(r, "TaxpayerType"),
                                               Cell(r, "Taxpayer Type")),
                                        Cell(r, "taxpayer_type"))),
         condition_metric |->
             IF NotNA(Cell(r, "ConditionMetric"))
             THEN clean(OrCell(Cell(r, "ConditionMetric"), Cell(r, "Condition Metric")))
             ELSE <<>>,
         condition_op |->
             IF NotNA(Cell(r, "ConditionOperator"))
             THEN clean(OrCell(Cell(r, "ConditionOperator"), Cell(r, "Condition Operator")))
             ELSE <<>>,
         condition_value |->
             IF NotNA(Cell(r, "ConditionValue"))
             THEN as_float(OrCell(Cell(r, "ConditionValue"), Cell(r, "Condition Value")))
             ELSE None,
         deadline_kind |-> clean(OrCell(OrCell(Cell(r, "DeadlineKind"),
                                               Cell(r, "Deadline Kind")),
                                        Cell(r, "deadline_kind"))),
         month |-> m,
         day |-> as_int(Cell(r, "Day")),
         month_name |-> MonthNameIf(m),
         offset_months |-> IF NotNA(offset_months_val) THEN as_int(offset_months_val) ELSE None,
         offset_days |-> IF NotNA(offset_days_val) THEN as_int(offset_days_val) ELSE None,
         text |-> clean(OrCell(OrCell(Cell(r, "DisplayText"), Cell(r, "Display Text")),
                               Cell(r, "display_text")))]

\* validate_threshold_data that looks for a missing amount only
ValidateNullOnlyMutant(row) ==
    ~ ( /\ lower(row.requirement_applies) \in YES_VALUES
        /\ row.op # <<>>
        /\ row.amount = None )

\* validate_threshold_data(row)
validate_threshold_data(row) ==
    ~ ( /\ lower(row.requirement_applies) \in YES_VALUES
        /\ row.op # <<>>
        /\ (row.amount = None \/ row.amount[1] = 0) )

------------------------------------------------------------------------------
(* Dates: datetime, strptime, relativedelta *)

MINYEAR == 1
MAXYEAR == 9999

IsLeap(y) == (y % 4 = 0) /\ ((y % 100 # 0) \/ (y % 400 = 0))

DaysInMonth(y, m) ==
    IF m = 2 THEN (IF IsLeap(y) THEN 29 ELSE 28)
    ELSE IF m \in {4, 6, 9, 11} THEN 30 ELSE 31

\* datetime(y, m, d) is constructible (otherwise ValueError)
ValidDate(y, m, d) ==
    /\ MINYEAR <= y /\ y <= MAXYEAR
    /\ 1 <= m /\ m <= 12
    /\ 1 <= d /\ d <= DaysInMonth(y, m)

Date(y, m, d) == [y |-> y, m |-> m, d |-> d]

RECURSIVE DaysBeforeMonth(_, _)
DaysBeforeMonth(y, m) ==
    IF m = 1 THEN 0 ELSE DaysBeforeMonth(y, m - 1) + DaysInMonth(y, m - 1)

DaysBeforeYear(y) ==
    (y - 1) * 365 + ((y - 1) \div 4) - ((y - 1) \div 100) + ((y - 1) \div 400)

\* date.toordinal()
ToOrdinal(dt) == DaysBeforeYear(dt.y) + DaysBeforeMonth(dt.y, dt.m) + dt.d

\* date.fromordinal(n), for an ordinal of a year in MINYEAR..MAXYEAR
YearOfOrdinal(n) ==
    LET guess == ((n - 1) \div 366) + 1
    IN  CHOOSE y \in guess..(guess + 30) :
            DaysBeforeYear(y) < n /\ n <= DaysBeforeYear(y + 1)

FromOrdinal(n) ==
    LET y   == YearOfOrdinal(n)
        doy == n - DaysBeforeYear(y)
        m   == CHOOSE mm \in 1..12 :
                   DaysBeforeMonth(y, mm) < doy /\ doy <= DaysBeforeMonth(y, mm) + DaysInMonth(y, mm)
    IN  Date(y, m, doy - DaysBeforeMonth(y, m))

\* dt + relativedelta(months=months, days=days): the month is moved first, the
\* day clipped to the month's length, then the days are added.
\* None where the addition raises (year outside MINYEAR..MAXYEAR).
AddRelativeDelta(dt, months, days) ==
    LET idx == dt.y * 12 + (dt.m - 1) + months
        y1  == idx \div 12
        m1  == (idx % 12) + 1
    IN  IF y1 < MINYEAR \/ y1 > MAXYEAR THEN None
        ELSE LET d1 == IF dt.d > DaysInMonth(y1, m1) THEN DaysInMonth(y1, m1) ELSE dt.d
                 n  == ToOrdinal(Date(y1, m1, d1)) + days
             IN  IF n < 1 \/ n > DaysBeforeYear(MAXYEAR + 1) THEN None
                 ELSE Some(FromOrdinal(n))

\* s.split(sep)
RECURSIVE Split(_, _)
Split(s, sep) ==
    IF \E i \in 1..Len(s) : s[i] = sep
    THEN LET i == CHOOSE j \in 1..Len(s) : s[j] = sep /\ \A k \in 1..(j - 1) : s[k] # sep
         IN  <<SubSeq(s, 1, i - 1)>> \o Split(SubSeq(s, i + 1, Len(s)), sep)
    ELSE <<s>>

\* datetime.strptime(s, "%Y-%m-%d"): Some(date), or None where it raises
\* ValueError.  %Y is four digits, %m and %d one or two.
strptime_ymd(s) ==
    LET parts == Split(s, "-")
    IN  IF /\ Len(parts) = 3
           /\ AllDigits(parts[1]) /\ Len(parts[1]) = 4
           /\ AllDigits(parts[2]) /\ Len(parts[2]) <= 2
           /\ AllDigits(parts[3]) /\ Len(parts[3]) <= 2
           /\ ValidDate(DigitsVal(parts[1]), DigitsVal(parts[2]), DigitsVal(parts[3]))
        THEN Some(Date(DigitsVal(parts[1]), DigitsVal(parts[2]), DigitsVal(parts[3])))
        ELSE None

\* zero-padded decimal of width w
RECURSIVE ZeroPad(_, _)
ZeroPad(s, w) == IF Len(s) >= w THEN s ELSE ZeroPad(<<"0">> \o s, w)

\* dt.strftime("%Y-%m-%d")
strftime_ymd(dt) ==
    ZeroPad(NatToStr(dt.y), 4) \o <<"-">> \o ZeroPad(NatToStr(dt.m), 2)
        \o <<"-">> \o ZeroPad(NatToStr(dt.d), 2)

\* dt.strftime("%B %d, %Y")
strftime_long(dt) ==
    month_full[dt.m] \o <<" ">> \o ZeroPad(NatToStr(dt.d), 2) \o <<",", " ">>
        \o ZeroPad(NatToStr(dt.y), 4)

------------------------------------------------------------------------------
(* Event-anchored deadline calculator *)

\* python-dateutil is a hard dependency of pandas, which the module imports
\* unconditionally: the guarded import of relativedelta succeeds.
relativedelta == TRUE

tax_return_indicators ==
    { <<"R", "E", "T", "U", "R", "N", "_", "D", "U", "E", "_", "D", "A", "T", "E">>,
      <<"T", "A", "X", "_", "R", "E", "T", "U", "R", "N">>,
      <<"C", "I", "T", "_", "R", "E", "T", "U", "R", "N">>,
      <<"C", "O", "R", "P", "O", "R", "A", "T", "E", "_", "T", "A", "X">>,
      <<"W", "I", "T", "H", "_", "R", "E", "T", "U", "R", "N">>,
      <<"F", "I", "L", "I", "N", "G", "_", "D", "A", "T", "E">>,
      <<"T", "A", "X", "_", "F", "I", "L", "I", "N", "G">> }

S_tax_return == <<"t", "a", "x", " ", "r", "e", "t", "u", "r", "n">>
S_FIXED_DATE == <<"F", "I", "X", "E", "D", "_", "D", "A", "T", "E">>
S_FYE_RELATIVE == <<"F", "Y", "E", "_", "R", "E", "L", "A", "T", "I", "V", "E">>
S_DueWith == <<"D", "u", "e", " ", "w", "i", "t", "h", " ", "t", "a", "x", " ", "r", "e", "t", "u", "r", "n", " ", "(">>
S_AfterTaxReturn == <<"d", " ", "a", "f", "t", "e", "r", " ", "t", "a", "x", " ", "r", "e", "t", "u", "r", "n", " ", "(">>

\* is_tax_return_based with the event anchor and the text left out
KindOnlyMutant(deadline_info) ==
    upper(deadline_info.deadline_kind) \in tax_return_indicators

\* is_tax_return_based (lines 286-290)
is_tax_return_based(deadline_info) ==
    \/ upper(deadline_info.deadline_kind) \in tax_return_indicators
    \/ \E ind \in tax_return_indicators : Contains(upper(deadline_info.event_anchor), ind)
    \/ Contains(lower(deadline_info.text), S_tax_return)

\* the year of the fiscal year end itself
SameYearMutant(y) == y

\* the year of a fixed CIT date (lines 311, 313): the one after y
FollowingYear(y) == y + 1

\* The date of the CIT deadline (lines 300-325): Some(date) or None.
\* now_year is datetime.now().year at the time of the call.
cit_date_of(cit_deadline, fye_str, now_year) ==
    LET cit_kind == upper(cit_deadline.deadline_kind)
    IN  IF cit_kind = S_FIXED_DATE
        THEN LET month == cit_deadline.month
                 day   == cit_deadline.day
             IN  IF month # None /\ month[1] # 0 /\ day # None /\ day[1] # 0
                 THEN IF fye_str # <<>>
                      THEN LET fye_date == strptime_ymd(fye_str)
                           IN  IF fye_date = None THEN None
                               ELSE IF ValidDate(FollowingYear(fye_date[1].y), month[1], day[1])
                                    THEN Some(Date(FollowingYear(fye_date[1].y), month[1], day[1]))
                                    ELSE None
                      ELSE IF ValidDate(FollowingYear(now_year), month[1], day[1])
                           THEN Some(Date(FollowingYear(now_year), month[1], day[1]))
                           ELSE None
                 ELSE None
        ELSE IF cit_kind = S_FYE_RELATIVE /\ fye_str # <<>>
        THEN LET fye_date == strptime_ymd(fye_str)
             IN  IF fye_date = None THEN None
                 ELSE AddRelativeDelta(fye_date[1], OrZero(cit_deadline.offset_months),
                                       OrZero(cit_deadline.offset_days))
        ELSE None

\* calculated_date with the day offset dropped
MonthsOnlyMutant(cit_date, tp_offset_months, tp_offset_days) ==
    AddRelativeDelta(cit_date, tp_offset_months, 0)[1]

\* calculated_date (lines 336-338, 347)
CalculatedDate(cit_date, tp_offset_months, tp_offset_days) ==
    IF tp_offset_months = 0 /\ tp_offset_days = 0
    THEN cit_date
    ELSE AddRelativeDelta(cit_date, tp_offset_months, tp_offset_days)[1]

\* the text always replaced by the synthesized one
OverwriteTextMutant(old, synthesized) == synthesized

\* `if not updated.get("text"): updated["text"] = ...` (lines 343-344, 352-353)
TextOrSynthesized(old, synthesized) == IF old # <<>> THEN old ELSE synthesized

\* The enriched copy of an anchored record (lines 330-355).
enriched(deadline_info, cit_date) ==
    LET tp_offset_months == OrZero(deadline_info.offset_months)
        tp_offset_days   == OrZero(deadline_info.offset_days)
        calculated_date  == CalculatedDate(cit_date, tp_offset_months, tp_offset_days)
        text ==
            TextOrSynthesized(
                deadline_info.text,
                IF tp_offset_months = 0 /\ tp_offset_days = 0
                THEN S_DueWith \o strftime_long(calculated_date) \o <<")">>
                ELSE IntToStr(tp_offset_months) \o <<"m", " ">> \o IntToStr(tp_offset_days)
                       \o S_AfterTaxReturn \o strftime_long(calculated_date) \o <<")">>)
    IN  Update(deadline_info,
               [calculated_date |-> strftime_ymd(calculated_date),
                month |-> Some(calculated_date.m),
                day |-> Some(calculated_date.d),
                month_name |-> month_abbr[calculated_date.m],
                text |-> text])

\* calculate_deadline_from_cit(deadline_info, cit_deadlines, fye)
calculate_deadline_from_cit(deadline_info, cit_deadlines, fye_str, now_year) ==
    IF cit_deadlines = <<>> \/ ~relativedelta THEN deadline_info
    ELSE IF ~is_tax_return_based(deadline_info) THEN deadline_info
    ELSE LET cit_date == cit_date_of(cit_deadlines[1], fye_str, now_year)
         IN  IF cit_date = None THEN deadline_info
             ELSE enriched(deadline_info, cit_date[1])

------------------------------------------------------------------------------
(* Ordering: Python's comparison of strings and of key tuples, sorted() *)

\* the printable ASCII characters in code-point order (quote, backslash and
\* backquote left out: no input uses them)
AsciiOrder ==
    << " ", "!", "#", "$", "%", "&", "'", "(", ")", "*", "+",
       ",", "-", ".", "/", "0", "1", "2", "3", "4", "5", "6", "7",
       "8", "9", ":", ";", "<", "=", ">", "?", "@", "A", "B", "C",
       "D", "E", "F", "G", "H", "I", "J", "K", "L", "M", "N", "O",
       "P", "Q", "R", "S", "T", "U", "V", "W", "X", "Y", "Z", "[",
       "]", "^", "_", "a", "b", "c", "d", "e", "f", "g",
       "h", "i", "j", "k", "l", "m", "n", "o", "p", "q", "r", "s",
       "t", "u", "v", "w", "x", "y", "z", "{", "|", "}", "~" >>

CharCode(ch) == CHOOSE i \in 1..Len(AsciiOrder) : AsciiOrder[i] = ch

\* a < b for strings
RECURSIVE StrLess(_, _)
StrLess(a, b) ==
    IF b = <<>> THEN FALSE
    ELSE IF a = <<>> THEN TRUE
    ELSE IF Head(a) = Head(b) THEN StrLess(Tail(a), Tail(b))
    ELSE CharCode(Head(a)) < CharCode(Head(b))

\* a key of sort_group that leaves out seq
GroupIdOnlyMutant(x, y) == StrLess(x.group_id, y.group_id)

\* the key of sort_group, (group_id, seq), compared as tuples
GroupKeyLess(x, y) ==
    \/ StrLess(x.group_id, y.group_id)
    \/ x.group_id = y.group_id /\ x.seq < y.seq

\* a key of the country sort that lowers the region as well
FoldedRegionMutant(x, y) ==
    \/ StrLess(lower(x.region), lower(y.region))
    \/ lower(x.region) = lower(y.region) /\ StrLess(lower(x.name), lower(y.name))

\* the key of the country sort, (region, name.lower())
CountryKeyLess(x, y) ==
    \/ StrLess(x.region, y.region)
    \/ x.region = y.region /\ StrLess(lower(x.name), lower(y.name))

\* key(x) < key(y) for the two sort keys of compile_rules
KeyLess(key, x, y) ==
    IF key = "group" THEN GroupKeyLess(x, y) ELSE CountryKeyLess(x, y)

\* insert x behind every element that is not greater (stability)
RECURSIVE InsertSorted(_, _, _)
InsertSorted(key, sorted, x) ==
    IF sorted = <<>> THEN <<x>>
    ELSE IF KeyLess(key, x, Head(sorted)) THEN <<x>> \o sorted
    ELSE <<Head(sorted)>> \o InsertSorted(key, Tail(sorted), x)

\* sorted(items, key=...): stable
RECURSIVE SortedBy(_, _)
SortedBy(key, items) ==
    IF items = <<>> THEN <<>>
    ELSE InsertSorted(key, SortedBy(key, SubSeq(items, 1, Len(items) - 1)),
                      items[Len(items)])

\* sort_group that leaves the list as it is
UnsortedMutant(items) == items

\* sort_group (lines 541-543)
sort_group(items) == SortedBy("group", items)

------------------------------------------------------------------------------
(* compile_rules (compile_rules2.py): one step per source row, then the
   sort, the second pass and the assembly *)

\* bound: source rows read in one compilation, over all sheets
MaxRows == 3

IngestPhases == <<"lf_th", "lf_dl", "mf_th", "mf_dl", "forms", "cbcr", "cit">>

PhaseIdx(p) ==
    IF p = "start" THEN 0
    ELSE CHOOSE i \in 1..Len(IngestPhases) : IngestPhases[i] = p

Ingesting == pc = "start" \/ \E i \in 1..Len(IngestPhases) : IngestPhases[i] = pc

\* c[field].append(row) for the country with this key
AppendRow(registry, key, field, row) ==
    [registry EXCEPT ![IndexOf(registry, key)][field] = Append(@, row)]

\* row["doc_type"] = clean(r.get("DocTypeNormalized") or default)
WithDocType(row, r, default) ==
    Update(row, [doc_type |-> clean(OrCell(Cell(r, "DocTypeNormalized"), Str(default)))])

\* body of the threshold loops once the country is there (lines 403-406, 428-431)
StoreThreshold(registry, key, field, r, default) ==
    LET row == WithDocType(pack_threshold_row(r), r, default)
    IN  IF validate_threshold_data(row) THEN AppendRow(registry, key, field, row)
        ELSE registry

\* body of the deadline loops (lines 416-418, 441-443)
StoreDeadline(registry, key, field, r, default) ==
    AppendRow(registry, key, field, WithDocType(pack_deadline_row(r), r, default))

\* body of the forms loop (lines 453-455)
StoreForm(registry, key, r) ==
    AppendRow(registry, key, "tp_forms", WithDocType(pack_form_row(r), r, DocTypeFM))

\* the notification stored whatever required and included_in_cit hold
StoreCbcrAlwaysMutant(registry, key, r) ==
    [registry EXCEPT ![IndexOf(registry, key)].cbcr = Some(pack_cbcr_row(r))]

\* the notification loop keeping the first notifiable row of a country
StoreCbcrFirstWinsMutant(registry, key, r) ==
    LET row         == pack_cbcr_row(r)
        is_required == lower(row.required) \in YES_VALUES
        is_in_cit   == lower(row.included_in_cit) \in YES_VALUES
    IN  IF ~(is_required \/ is_in_cit) \/ registry[IndexOf(registry, key)].cbcr # None
        THEN registry
        ELSE [registry EXCEPT ![IndexOf(registry, key)].cbcr = Some(row)]

\* body of the notification loop (lines 465-477)
StoreCbcr(registry, key, r) ==
    LET row         == pack_cbcr_row(r)
        is_required == lower(row.required) \in YES_VALUES
        is_in_cit   == lower(row.included_in_cit) \in YES_VALUES
    IN  IF ~(is_required \/ is_in_cit) THEN registry
        ELSE [registry EXCEPT ![IndexOf(registry, key)].cbcr = Some(row)]

\* what each loop does with its row once the country is there
StoreRow(phase, registry, key, r) ==
    CASE phase = "lf_th" -> StoreThreshold(registry, key, "lf_tpd_thresholds", r, DocTypeLF)
      [] phase = "lf_dl" -> StoreDeadline(registry, key, "lf_tpd_deadlines", r, DocTypeLF)
      [] phase = "mf_th" -> StoreThreshold(registry, key, "mf_thresholds", r, DocTypeMF)
      [] phase = "mf_dl" -> StoreDeadline(registry, key, "mf_deadlines", r, DocTypeMF)
      [] phase = "forms" -> StoreForm(registry, key, r)
      [] phase = "cbcr" -> StoreCbcr(registry, key, r)

\* class SheetNames (lines 18-26)
COUNTRY_REGIONS == "0. Iso Codes"
LF_THRESHOLD == "1.LFR Threshold"
LF_DEADLINES == "2. LFR Deadlines"
MF_THRESHOLD == "3. MF_Thresholds"
MF_DEADLINES == "4. MF_Deadlines"
TP_FORMS == "5. TPForms_deadlines"
CBCR == "6. CBCR Notifications"
CIT_DEADLINES == "7. CIT Deadlines"

AllSheets ==
    {COUNTRY_REGIONS, LF_THRESHOLD, LF_DEADLINES, MF_THRESHOLD, MF_DEADLINES, TP_FORMS,
     CBCR, CIT_DEADLINES}

\* the sheets loaded with required=True when the notifications are not
RequiredSheetsNoCbcrMutant ==
    <<COUNTRY_REGIONS, LF_THRESHOLD, LF_DEADLINES, MF_THRESHOLD, MF_DEADLINES, TP_FORMS>>

\* the sheets loaded with required=True, in the order of lines 374-380
RequiredSheets ==
    <<COUNTRY_REGIONS, LF_THRESHOLD, LF_DEADLINES, MF_THRESHOLD, MF_DEADLINES, TP_FORMS,
      CBCR>>

\* load_sheet(xls, name, required): the exception it raises, None when it
\* returns a frame (an empty one for an optional sheet that is not there)
load_sheet(names, name, required) ==
    IF name \notin names /\ required
    THEN Some([type |-> "ValueError", message |-> <<"Missing required sheet: ", name>>])
    ELSE None

\* the first exception of the loads of lines 374-381, None if all return
LoadAll(names) ==
    LET failing == {i \in 1..Len(RequiredSheets) :
                        load_sheet(names, RequiredSheets[i], TRUE) # None}
    IN  IF failing = {} THEN load_sheet(names, CIT_DEADLINES, FALSE)
        ELSE load_sheet(names, RequiredSheets[CHOOSE i \in failing :
                                                  \A k \in failing : i <= k], TRUE)

\* lines 371-392: the sheets are loaded, then the country map; an exception
\* of load_sheet leaves compile_rules
LoadSheets ==
    /\ pc = "load"
    /\ raised' = LoadAll(sheet_names)
    /\ IF LoadAll(sheet_names) # None
       THEN /\ pc' = "failed"
            /\ UNCHANGED <<name_to_region, code_to_name>>
       ELSE /\ pc' = "start"
            /\ name_to_region' = load_country_map(country_map).n2r
            /\ code_to_name' = load_country_map(country_map).c2n
    /\ UNCHANGED <<country_map, countries, unmatched, calls, fye, nrows, compiled, input_text,
                   emitted, calc_in, cit_order, cbcr_seen, sheet_names>>

\* the sheet each loop reads
SheetOf(phase) ==
    CASE phase = "lf_th" -> LF_THRESHOLD
      [] phase = "lf_dl" -> LF_DEADLINES
      [] phase = "mf_th" -> MF_THRESHOLD
      [] phase = "mf_dl" -> MF_DEADLINES
      [] phase = "forms" -> TP_FORMS
      [] phase = "cbcr" -> CBCR
      [] phase = "cit" -> CIT_DEADLINES

\* The common head of the six loops (e.g. lines 397-401): resolve the
\* jurisdiction, record it as unmatched when there is no record.
IngestRow(phase, r) ==
    /\ Ingesting
    /\ PhaseIdx(pc) <= PhaseIdx(phase)
    /\ SheetOf(phase) \in sheet_names
    /\ nrows < MaxRows
    /\ LET j   == clean(Cell(r, "Jurisdiction"))
           res == ensure_country(countries, j)
       IN  /\ calls' = calls \cup {<<j, res.ret>>}
           /\ IF res.ret = None
              THEN /\ unmatched' = unmatched \cup {j}
                   /\ countries' = res.registry
              ELSE /\ unmatched' = unmatched
                   /\ countries' = StoreRow(phase, res.registry, res.ret[1], r)
           /\ cbcr_seen' = IF phase = "cbcr" /\ res.ret # None
                           THEN Append(cbcr_seen, <<res.ret[1], pack_cbcr_row(r)>>)
                           ELSE cbcr_seen
    /\ pc' = phase
    /\ nrows' = nrows + 1
    /\ UNCHANGED <<sheet_names, raised, calc_in, cit_order, input_text, emitted, country_map,
                   name_to_region, code_to_name, fye, compiled>>

IngestLfThreshold(r) == IngestRow("lf_th", r)

IngestLfDeadline(r) == IngestRow("lf_dl", r)

IngestMfThreshold(r) == IngestRow("mf_th", r)

IngestMfDeadline(r) == IngestRow("mf_dl", r)

IngestForm(r) == IngestRow("forms", r)

IngestCbcr(r) == IngestRow("cbcr", r)

\* the country a CIT row goes to (lines 495-509): Some(index) or None
FindCitCountry(registry, j) ==
    LET full_country_name == DictGet(code_to_name, upper(j), j)
        byName == {i \in 1..Len(registry) : registry[i].name = full_country_name}
        byKey  == {i \in 1..Len(registry) : registry[i].key = lower(j)}
        First(S) == CHOOSE i \in S : \A k \in S : i <= k
    IN  IF byName # {} THEN Some(First(byName))
        ELSE IF byKey # {} THEN Some(First(byKey))
        ELSE None

\* the country of a CIT row (lines 489-514): Some(index), None when the row
\* is skipped
CitCountryOf(registry, r) ==
    LET j == clean(Cell(r, "Jurisdiction (3-letter code)"))
    IN  IF j = <<>> THEN None ELSE FindCitCountry(registry, j)

\* the body with a record created for a jurisdiction that has none
CitLoopBodyCreatingMutant(registry, r) ==
    LET j   == clean(Cell(r, "Jurisdiction (3-letter code)"))
        res == ensure_country(registry, j)
    IN  IF res.ret = None THEN registry
        ELSE [res.registry EXCEPT ![IndexOf(res.registry, res.ret[1])].cit_deadlines =
                 Append(@, pack_cit_row(r))]

\* the body with the country's local-file deadlines resolved as soon as the
\* CIT row is stored
CitLoopBodyResolvingMutant(registry, r) ==
    LET found == CitCountryOf(registry, r)
    IN  IF found = None THEN registry
        ELSE LET cits == Append(registry[found[1]].cit_deadlines, pack_cit_row(r))
             IN  [registry EXCEPT
                     ![found[1]].cit_deadlines = cits,
                     ![found[1]].lf_tpd_deadlines =
                         [k \in 1..Len(@) |->
                             IF fye = <<>> THEN @[k]
                             ELSE calculate_deadline_from_cit(@[k], cits, fye, 2026)]]

\* the body of the CIT deadlines loop (lines 487-519): the registry after it
CitLoopBody(registry, r) ==
    LET found == CitCountryOf(registry, r)
    IN  IF found = None THEN registry
        ELSE [registry EXCEPT ![found[1]].cit_deadlines = Append(@, pack_cit_row(r))]

\* one row of the CIT deadlines loop (lines 487-519)
IngestCit(r) ==
    /\ Ingesting
    /\ CIT_DEADLINES \in sheet_names
    /\ nrows < MaxRows
    /\ countries' = CitLoopBody(countries, r)
    /\ LET found == CitCountryOf(countries, r)
       IN  cit_order' = IF found = None THEN cit_order
                        ELSE Append(cit_order, <<countries[found[1]].key, pack_cit_row(r)>>)
    /\ pc' = "cit"
    /\ nrows' = nrows + 1
    /\ UNCHANGED <<cbcr_seen, sheet_names, raised, calc_in, input_text, emitted, country_map, name_to_region, code_to_name,
                   unmatched, calls, fye, compiled>>

\* lines 545-551
SortCountry(c) ==
    [c EXCEPT !.lf_tpd_thresholds = sort_group(@),
              !.lf_tpd_deadlines = sort_group(@),
              !.mf_thresholds = sort_group(@),
              !.mf_deadlines = sort_group(@),
              !.tp_forms = sort_group(@),
              !.cit_deadlines = sort_group(@)]

SortGroups ==
    /\ Ingesting
    /\ countries' = [i \in 1..Len(countries) |-> SortCountry(countries[i])]
    /\ pc' = "sorted"
    /\ UNCHANGED <<cbcr_seen, sheet_names, raised, calc_in, cit_order, input_text, emitted, country_map, name_to_region, code_to_name, unmatched, calls, fye,
                   nrows, compiled>>

\* the guard of the second pass (line 555)
SecondPassUnguardedMutant(f) == relativedelta

SecondPassEnabled(f) == relativedelta /\ f # <<>>

\* the second pass that also marks a resolved record as a fixed date
EnrichCountryKindMutant(c, f, now_year) ==
    IF c.cit_deadlines = <<>> THEN c
    ELSE LET calc(d) ==
                 LET u == calculate_deadline_from_cit(d, c.cit_deadlines, f, now_year)
                 IN  IF "calculated_date" \in DOMAIN u
                     THEN Update(u, [deadline_kind |-> S_FIXED_DATE])
                     ELSE u
         IN  [c EXCEPT
                 !.lf_tpd_deadlines = [i \in 1..Len(@) |-> calc(@[i])],
                 !.mf_deadlines = [i \in 1..Len(@) |-> calc(@[i])],
                 !.tp_forms = [i \in 1..Len(@) |-> calc(@[i])],
                 !.cbcr = IF @ = None THEN None ELSE Some(calc(@[1]))]

\* lines 557-570 for one country
EnrichCountry(c, f, now_year) ==
    IF c.cit_deadlines = <<>> THEN c
    ELSE LET calc(d) == calculate_deadline_from_cit(d, c.cit_deadlines, f, now_year)
         IN  [c EXCEPT
                 !.lf_tpd_deadlines = [i \in 1..Len(@) |-> calc(@[i])],
                 !.mf_deadlines = [i \in 1..Len(@) |-> calc(@[i])],
                 !.tp_forms = [i \in 1..Len(@) |-> calc(@[i])],
                 !.cbcr = IF @ = None THEN None ELSE Some(calc(@[1]))]

\* the registry after the second pass (lines 555-573)
SecondPass(registry, f, now_year) ==
    IF SecondPassEnabled(f)
    THEN [i \in 1..Len(registry) |-> EnrichCountry(registry[i], f, now_year)]
    ELSE registry

\* the second pass; now_year is what datetime.now().year returns during it
Enrich(now_year) ==
    /\ pc = "sorted"
    /\ countries' = SecondPass(countries, fye, now_year)
    /\ pc' = "enriched"
    /\ UNCHANGED <<cbcr_seen, sheet_names, raised, calc_in, cit_order, input_text, emitted, country_map, name_to_region, code_to_name, unmatched, calls, fye,
                   nrows, compiled>>

\* datetime.now().strftime("%Y-%m-%d %H:%M")
strftime_stamp(now) ==
    strftime_ymd(now) \o <<" ">> \o ZeroPad(NatToStr(now.hh), 2) \o <<":">>
        \o ZeroPad(NatToStr(now.mm), 2)

\* lines 575-588
Assemble(now) ==
    /\ pc = "enriched"
    /\ compiled' = Some([generated_at |-> strftime_stamp(now),
                         fye |-> fye,
                         countries |-> SortedBy("country", countries)])
    /\ pc' = "done"
    /\ UNCHANGED <<cbcr_seen, sheet_names, raised, calc_in, cit_order, input_text, emitted, country_map, name_to_region, code_to_name, countries, unmatched,
                   calls, fye, nrows>>

------------------------------------------------------------------------------
(* Regular expressions (module re), as far as the patterns of
   compile_rules.py need them.  A pattern is one of
     [t |-> "lit", s |-> string]      the string itself
     [t |-> "cls", c |-> set]         one character of the set
     [t |-> "plus", c |-> set]        one or more characters of the set
     [t |-> "star", c |-> set]        zero or more characters of the set
     [t |-> "opt", r |-> pattern]     the pattern or nothing
     [t |-> "seq", rs |-> <<patterns>>]
     [t |-> "alt", rs |-> <<patterns>>]
     [t |-> "wb"]                     \b
   Patterns compiled with re.IGNORECASE are written in lower case and run on
   the lower-cased text. *)

Lit(s) == [t |-> "lit", s |-> s]
Cls(c) == [t |-> "cls", c |-> c]
Plus(c) == [t |-> "plus", c |-> c]
Star(c) == [t |-> "star", c |-> c]
Opt(r) == [t |-> "opt", r |-> r]
SeqOfRs(rs) == [t |-> "seq", rs |-> rs]
Alt(rs) == [t |-> "alt", rs |-> rs]
WordBoundary == [t |-> "wb"]

\* \d, \s and \w (ASCII)
DigitSet == {DigitChars[i] : i \in 1..10}
SpaceSet == {" ", "\t", "\n"}
IsWordChar(ch) ==
    ch \in DigitSet \/ ch = "_" \/ ch \in DOMAIN UpperOf
    \/ \E lc \in DOMAIN UpperOf : UpperOf[lc] = ch

\* \b holds before position i of txt
AtWordBoundary(txt, i) ==
    LET before == i > 1 /\ IsWordChar(txt[i - 1])
        after  == i <= Len(txt) /\ IsWordChar(txt[i])
    IN  before # after

\* the positions behind the matches of pattern re that start at position i
RECURSIVE Ends(_, _, _)
RECURSIVE EndsOfSeq(_, _, _)
Ends(re, txt, i) ==
    CASE re.t = "lit" ->
             IF i + Len(re.s) - 1 <= Len(txt) /\ SubSeq(txt, i, i + Len(re.s) - 1) = re.s
             THEN {i + Len(re.s)} ELSE {}
      [] re.t = "cls" -> IF i <= Len(txt) /\ txt[i] \in re.c THEN {i + 1} ELSE {}
      [] re.t = "plus" ->
             {j \in (i + 1)..(Len(txt) + 1) : \A k \in i..(j - 1) : txt[k] \in re.c}
      [] re.t = "star" ->
             {j \in i..(Len(txt) + 1) : \A k \in i..(j - 1) : txt[k] \in re.c}
      [] re.t = "opt" -> {i} \cup Ends(re.r, txt, i)
      [] re.t = "seq" -> EndsOfSeq(re.rs, txt, {i})
      [] re.t = "alt" -> UNION {Ends(re.rs[n], txt, i) : n \in 1..Len(re.rs)}
      [] re.t = "wb" -> IF AtWordBoundary(txt, i) THEN {i} ELSE {}

EndsOfSeq(rs, txt, starts) ==
    IF rs = <<>> \/ starts = {} THEN starts
    ELSE EndsOfSeq(Tail(rs), txt, UNION {Ends(Head(rs), txt, i) : i \in starts})

MatchStarts(re, txt) == {i \in 1..(Len(txt) + 1) : Ends(re, txt, i) # {}}

\* re.search(txt) is not None
Search(re, txt) == \E i \in 1..(Len(txt) + 1) : Ends(re, txt, i) # {}

\* start of the match re.search returns: the leftmost
FirstStart(re, txt) ==
    CHOOSE i \in MatchStarts(re, txt) : \A k \in MatchStarts(re, txt) : i <= k

------------------------------------------------------------------------------
(* compile_rules.py: patterns *)

Sp == Plus(SpaceSet)
Num1 == Plus(DigitSet)

HARD_PAT ==
    Alt(<< Lit(<<"s", "u", "b", "m", "i", "t">>), Lit(<<"f", "i", "l", "e">>), Lit(<<"d", "u", "e">>),
           Lit(<<"d", "e", "a", "d", "l", "i", "n", "e">>), Lit(<<"l", "o", "d", "g", "e">>), Lit(<<"l", "o", "d", "g", "m", "e", "n", "t">>),
           Lit(<<"u", "p", "l", "o", "a", "d">>), Lit(<<"d", "e", "l", "i", "v", "e", "r">>), Lit(<<"s", "i", "g", "n">>),
           Lit(<<"a", "t", "t", "e", "s", "t">>), Lit(<<"s", "t", "a", "t", "u", "t", "o", "r", "y">>),
           SeqOfRs(<<Lit(<<"b", "y">>), Sp, Cls(DigitSet)>>),
           SeqOfRs(<<Lit(<<"b", "y">>), Sp, Lit(<<"e", "n", "d">>), Sp, Lit(<<"o", "f">>)>>),
           SeqOfRs(<<Lit(<<"l", "a", "s", "t">>), Sp, Lit(<<"d", "a", "y">>), Sp, Lit(<<"o", "f">>)>>),
           SeqOfRs(<<Lit(<<"w", "i", "t", "h", "i", "n">>), Sp, Num1, Sp,
                     Alt(<<Lit(<<"d", "a", "y">>), Lit(<<"d", "a", "y", "s">>), Lit(<<"m", "o", "n", "t", "h">>), Lit(<<"m", "o", "n", "t", "h", "s">>)>>), Sp,
                     Alt(<<Lit(<<"a", "f", "t", "e", "r">>), Lit(<<"o", "f">>)>>), Sp,
                     Alt(<<Lit(<<"f", "y", "e">>), Lit(<<"y", "e", "a", "r">>), Lit(<<"y", "e", "a", "r", "-", "e", "n", "d">>)>>)>>) >>)

SOFT_PAT ==
    Alt(<< Lit(<<"p", "r", "e", "p", "a", "r", "e">>), Lit(<<"m", "a", "i", "n", "t", "a", "i", "n">>),
           SeqOfRs(<<Lit(<<"u", "p", "o", "n">>), Sp, Lit(<<"r", "e", "q", "u", "e", "s", "t">>)>>),
           SeqOfRs(<<Lit(<<"w", "i", "t", "h", "i", "n">>), Sp, Num1, Sp, Alt(<<Lit(<<"d", "a", "y">>), Lit(<<"d", "a", "y", "s">>)>>), Sp,
                     Lit(<<"o", "f">>), Sp, Alt(<<Lit(<<"a", "u", "d", "i", "t">>), Lit(<<"r", "e", "q", "u", "e", "s", "t">>), Lit(<<"n", "o", "t", "i", "c", "e">>)>>)>>),
           SeqOfRs(<<Lit(<<"o", "n">>), Sp, Lit(<<"d", "e", "m", "a", "n", "d">>)>>),
           SeqOfRs(<<Lit(<<"k", "e", "e", "p">>), Sp, Lit(<<"o", "n">>), Sp, Lit(<<"f", "i", "l", "e">>)>>),
           SeqOfRs(<<Lit(<<"p", "r", "o", "d", "u", "c", "e">>), Sp, Lit(<<"u", "p", "o", "n">>), Sp, Lit(<<"r", "e", "q", "u", "e", "s", "t">>)>>) >>)

\* MONTH_MAP, by the three-letter prefix
MONTH_MAP(prefix) == CHOOSE n \in 1..12 : lower(month_abbr[n]) = prefix

MONTH_RE ==
    SeqOfRs(<< WordBoundary,
               Alt(<< SeqOfRs(<<Lit(<<"j", "a", "n">>), Opt(Lit(<<"u", "a", "r", "y">>))>>),
                      SeqOfRs(<<Lit(<<"f", "e", "b">>), Opt(Lit(<<"r", "u", "a", "r", "y">>))>>),
                      SeqOfRs(<<Lit(<<"m", "a", "r">>), Opt(Lit(<<"c", "h">>))>>),
                      SeqOfRs(<<Lit(<<"a", "p", "r">>), Opt(Lit(<<"i", "l">>))>>),
                      Lit(<<"m", "a", "y">>),
                      SeqOfRs(<<Lit(<<"j", "u", "n">>), Opt(Lit(<<"e">>))>>),
                      SeqOfRs(<<Lit(<<"j", "u", "l">>), Opt(Lit(<<"y">>))>>),
                      SeqOfRs(<<Lit(<<"a", "u", "g">>), Opt(Lit(<<"u", "s", "t">>))>>),
                      SeqOfRs(<<Lit(<<"s", "e", "p">>), Opt(SeqOfRs(<<Lit(<<"t">>), Opt(Lit(<<"e", "m", "b", "e", "r">>))>>))>>),
                      SeqOfRs(<<Lit(<<"o", "c", "t">>), Opt(Lit(<<"o", "b", "e", "r">>))>>),
                      SeqOfRs(<<Lit(<<"n", "o", "v">>), Opt(Lit(<<"e", "m", "b", "e", "r">>))>>),
                      SeqOfRs(<<Lit(<<"d", "e", "c">>), Opt(Lit(<<"e", "m", "b", "e", "r">>))>>) >>),
               WordBoundary >>)

\* \b([0-3]?\d)\s*[/\-.]\s*  -- the part of the numeric-date pattern before group 2
NUMERIC_HEAD ==
    SeqOfRs(<< WordBoundary, Opt(Cls({"0", "1", "2", "3"})), Cls(DigitSet),
               Star(SpaceSet), Cls({"/", "-", "."}), Star(SpaceSet) >>)

\* (0?[1-9]|1[0-2])\b  -- group 2 and the closing boundary
NUMERIC_MONTH ==
    SeqOfRs(<< Alt(<< SeqOfRs(<<Opt(Lit(<<"0">>)), Cls(DigitSet \ {"0"})>>),
                      SeqOfRs(<<Lit(<<"1">>), Cls({"0", "1", "2"})>>) >>),
               WordBoundary >>)

\* \s*(?:month|months)\s+after\s+(?:fye|fy-?end|year[-\s]?end)  -- behind (\d+)
REL_TAIL ==
    SeqOfRs(<< Star(SpaceSet), Alt(<<Lit(<<"m", "o", "n", "t", "h">>), Lit(<<"m", "o", "n", "t", "h", "s">>)>>), Sp, Lit(<<"a", "f", "t", "e", "r">>), Sp,
               Alt(<< Lit(<<"f", "y", "e">>),
                      SeqOfRs(<<Lit(<<"f", "y">>), Opt(Lit(<<"-">>)), Lit(<<"e", "n", "d">>)>>),
                      SeqOfRs(<<Lit(<<"y", "e", "a", "r">>), Opt(Cls({"-"} \cup SpaceSet)), Lit(<<"e", "n", "d">>)>>) >>) >>)

\* \b31\s*[/\-.]\s*12\b
DEC31 ==
    SeqOfRs(<< WordBoundary, Lit(<<"3", "1">>), Star(SpaceSet), Cls({"/", "-", "."}),
               Star(SpaceSet), Lit(<<"1", "2">>), WordBoundary >>)

S_upon_request == <<"u", "p", "o", "n", " ", "r", "e", "q", "u", "e", "s", "t">>
S_not_applicable == <<"n", "o", "t", " ", "a", "p", "p", "l", "i", "c", "a", "b", "l", "e">>
S_year_end == <<"y", "e", "a", "r", "-", "e", "n", "d">>
S_year_end_sp == <<"y", "e", "a", "r", " ", "e", "n", "d">>
S_fy_end == <<"f", "y", "-", "e", "n", "d">>
S_fy_end_sp == <<"f", "y", " ", "e", "n", "d">>
S_HARD == <<"H", "A", "R", "D">>
S_SOFT == <<"S", "O", "F", "T">>

------------------------------------------------------------------------------
(* compile_rules.py: classifier and month extractor *)

\* the class returned when both patterns match (line 46)
BothMatchSoftMutant == S_SOFT

BothMatchClass == S_HARD

\* classify_deadline(text)
classify_deadline(txt) ==
    IF txt = <<>> THEN <<>>
    ELSE LET is_hard == Search(HARD_PAT, lower(txt))
             is_soft == Search(SOFT_PAT, lower(txt))
         IN  IF is_hard /\ ~is_soft THEN S_HARD
             ELSE IF is_soft /\ ~is_hard THEN S_SOFT
             ELSE IF is_hard /\ is_soft THEN BothMatchClass
             ELSE <<>>

\* _month_name(m) for an optional integer
text_month_name(m) == month_name(m)

\* group 2 of the numeric-date match re.search returns, as an integer
NumericDateMonth(t) ==
    LET full == SeqOfRs(<<NUMERIC_HEAD, NUMERIC_MONTH>>)
        i    == FirstStart(full, t)
        p    == CHOOSE q \in Ends(NUMERIC_HEAD, t, i) : Ends(NUMERIC_MONTH, t, q) # {}
        e    == CHOOSE q \in Ends(NUMERIC_MONTH, t, p) : TRUE
    IN  DigitsVal(SubSeq(t, p, e - 1))

\* the pattern of line 77
REL == SeqOfRs(<<Num1, REL_TAIL>>)

\* int(rel.group(1)): the digits in front of the leftmost match
RelOffset(t) ==
    LET i == FirstStart(REL, t)
        p == CHOOSE q \in Ends(Num1, t, i) : Ends(REL_TAIL, t, q) # {}
    IN  DigitsVal(SubSeq(t, i, p - 1))

\* datetime.fromisoformat(s) for a date string: Some(date), or None where it
\* raises.  YYYY-MM-DD with a valid date is accepted; the other ISO 8601
\* spellings newer interpreters accept as well occur in no input.
fromisoformat(s) ==
    LET parts == Split(s, "-")
    IN  IF /\ Len(parts) = 3
           /\ AllDigits(parts[1]) /\ Len(parts[1]) = 4
           /\ AllDigits(parts[2]) /\ Len(parts[2]) = 2
           /\ AllDigits(parts[3]) /\ Len(parts[3]) = 2
           /\ ValidDate(DigitsVal(parts[1]), DigitsVal(parts[2]), DigitsVal(parts[3]))
        THEN Some(Date(DigitsVal(parts[1]), DigitsVal(parts[2]), DigitsVal(parts[3])))
        ELSE None

\* the month computed for "N months after year-end" (line 86)
RelMonthNoWrapMutant(base, offset) == base + offset

RelMonth(base, offset) == ((base - 1 + offset) % 12) + 1

\* the undated phrases of line 63
UndatedNoneMutant(t) == FALSE

Undated(t) == Contains(t, S_upon_request) \/ Contains(t, S_not_applicable)

\* _month_from_text(text, fye_str): Some(month) or None
month_from_text(txt, fye_str) ==
    IF txt = <<>> THEN None
    ELSE LET t == lower(txt)
             f == IF fye_str # <<>> THEN fromisoformat(fye_str) ELSE None
         IN  IF Undated(t) THEN None
             ELSE IF Search(MONTH_RE, t)
             THEN LET i == FirstStart(MONTH_RE, t) IN Some(MONTH_MAP(SubSeq(t, i, i + 2)))
             ELSE IF Search(SeqOfRs(<<NUMERIC_HEAD, NUMERIC_MONTH>>), t)
             THEN Some(NumericDateMonth(t))
             ELSE IF Search(REL, t) /\ f # None
             THEN Some(RelMonth(f[1].m, RelOffset(t)))
             ELSE IF f # None /\ ( \/ Contains(t, S_year_end) \/ Contains(t, S_year_end_sp)
                                  \/ Contains(t, S_fy_end) \/ Contains(t, S_fy_end_sp) )
             THEN Some(f[1].m)
             ELSE IF Search(DEC31, t) THEN Some(12)
             ELSE None

\* d.get('text', '') or d.get('deadline', '')
TextOrDeadline(d) ==
    IF "text" \in DOMAIN d /\ d.text # <<>> THEN d.text
    ELSE IF "deadline" \in DOMAIN d THEN d.deadline ELSE <<>>

\* _decorate_deadline(d, fye)
decorate_deadline(d, fye_str) ==
    LET m == month_from_text(TextOrDeadline(d), fye_str)
    IN  IF m # None /\ m[1] # 0
        THEN Update(d, [month |-> m, month_name |-> text_month_name(m)])
        ELSE Update(d, [month |-> None, month_name |-> <<>>])

------------------------------------------------------------------------------
(* Inputs of the identity resolver *)

Ger  == <<"G","e","r">>
DEU  == <<"D","E","U">>
Peru == <<"P","e","r","u">>
Atl  == <<"A","t","l">>
\* regions as the sheet spells them: one in capitals, one in lower case
EU   == <<"E","U">>
Am   == <<"a","m">>

RowGerEU    == [Country |-> Str(Ger), Code_3 |-> Str(DEU), Region |-> Str(EU)]
RowGerBlank == [Country |-> Str(Ger), Code_3 |-> Str(DEU), Region |-> NaN]
RowPeru     == [Country |-> Str(<<" ">> \o Peru), Code_3 |-> Str(<<"p","e","r">>),
                Region |-> Str(Am)]

\* The country/region sheets tried: a row may lack its region.
CountryMaps ==
    { <<RowGerEU>>, <<RowGerBlank>>, <<RowGerEU, RowPeru>>,
      <<RowPeru, RowGerBlank>> }

\* Jurisdiction tokens handed to ensure_country directly.
EnsureTokens ==
    { <<>>, Ger, upper(Ger), <<" ">> \o Ger \o <<" ">>,
      DEU, <<"d","e","U">> \o <<" ">>, <<"P","E","R">>, Atl }

InitMaps ==
    /\ country_map \in CountryMaps
    /\ name_to_region = load_country_map(country_map).n2r
    /\ code_to_name = load_country_map(country_map).c2n

InitEnsure ==
    /\ InitMaps
    /\ input_text = <<>>
    /\ emitted = <<>>
    /\ calc_in = <<>>
    /\ cit_order = <<>>
    /\ cbcr_seen = <<>>
    /\ sheet_names = AllSheets
    /\ raised = None
    /\ countries = <<>>
    /\ unmatched = {}
    /\ calls = {}
    /\ fye = <<>>
    /\ nrows = 0
    /\ compiled = None
    /\ pc = "ensure"

\* One call ensure_country(registry, t, name_to_region, code_to_name).
EnsureCall(t) ==
    /\ pc = "ensure"
    /\ LET res == ensure_country(countries, t)
       IN  /\ countries' = res.registry
           /\ calls' = calls \cup {<<t, res.ret>>}
    /\ UNCHANGED <<cbcr_seen, sheet_names, raised, calc_in, cit_order, input_text, emitted, country_map, name_to_region, code_to_name, unmatched, fye, nrows,
                   compiled, pc>>

NextEnsure == \E t \in EnsureTokens : EnsureCall(t)

SpecEnsure == InitEnsure /\ [][NextEnsure]_vars

------------------------------------------------------------------------------
(* Inputs of compile_rules *)

S_A == <<"A">>
S_B == <<"B">>
S_Yes == <<"Y", "e", "s">>
S_No == <<"N", "o">>
S_GE == <<">", "=">>
S_x == <<"x">>

\* threshold rows: applicable with amount; applicable with operator but no
\* amount; blank applicability with operator but no amount
ThrAmount   == [RequirementApplies |-> Str(S_Yes), ThresholdOperator |-> Str(S_GE),
                ThresholdAmount |-> Num(100), GroupID |-> Str(S_A), Seq |-> Num(1)]
ThrNoAmount == [RequirementApplies |-> Str(S_Yes), ThresholdOperator |-> Str(S_GE),
                ThresholdAmount |-> NaN, GroupID |-> Str(S_A), Seq |-> Num(2)]
ThrBlank    == [RequirementApplies |-> NaN, ThresholdOperator |-> Str(S_GE),
                ThresholdAmount |-> NaN, GroupID |-> Str(S_B), Seq |-> Num(1)]

\* deadline rows
DlFixed    == [Month |-> Num(3), Day |-> Num(31), DeadlineKind |-> Str(S_FIXED_DATE),
               GroupID |-> Str(S_A), Seq |-> Num(2), DisplayText |-> Str(S_x)]
DlMonth13  == [Month |-> Num(13), Day |-> Num(1), DeadlineKind |-> Str(S_FIXED_DATE),
               GroupID |-> Str(S_A), Seq |-> Num(1)]
DlMonth0   == [Month |-> Flt(-5), GroupID |-> Str(S_B), Seq |-> NaN]
DlReturn   == [Month |-> Str(<<"a", "b", "c">>), DeadlineKind |-> Str(<<"r", "e", "t", "u", "r", "n", "_", "d", "u", "e", "_", "d", "a", "t", "e">>),
               GroupID |-> Str(S_B), Seq |-> Num(1)]
DlAnchored == [Month |-> Num(13), EventAnchor |-> Str(<<"a", "f", "t", "e", "r", " ", "t", "a", "x", "_", "f", "i", "l", "i", "n", "g">>),
               OffsetMonths |-> Num(1), OffsetDays |-> Str(<<"4", "5">>),
               GroupID |-> Str(S_A), Seq |-> Num(1), DisplayText |-> Str(S_x)]

\* notification rows
CbcrYes   == [Required |-> Str(S_Yes), IncludedInCITReturn |-> NaN,
              DeadlineKind |-> Str(<<"T", "A", "X", "_", "R", "E", "T", "U", "R", "N">>), Month |-> Num(0)]
CbcrNo    == [Required |-> Str(S_No), IncludedInCITReturn |-> Str(<<>>), Month |-> Num(12)]
CbcrInCit == [Required |-> Str(S_No), IncludedInCITReturn |-> Str(<<"Y", " ">>),
              Month |-> Num(14), DisplayText |-> Str(<<"w", "i", "t", "h", " ", "T", "a", "x", " ", "R", "e", "t", "u", "r", "n">>)]

\* tax-filing deadline rows
CitFixed    == [DeadlineKind |-> Str(S_FIXED_DATE), Month |-> Num(3), Day |-> Num(31),
                GroupID |-> Str(S_A), Seq |-> Num(2), TaxpayerType |-> Str(S_A)]
CitRelative == [DeadlineKind |-> Str(<<"f", "y", "e", "_", "r", "e", "l", "a", "t", "i", "v", "e">>), OffsetMonths |-> Num(5),
                OffsetDays |-> Num(15), GroupID |-> Str(S_A), Seq |-> Num(1),
                TaxpayerType |-> Str(S_B)]
CitFeb30    == [DeadlineKind |-> Str(S_FIXED_DATE), Month |-> Num(2), Day |-> Num(30),
                GroupID |-> Str(S_A), Seq |-> Num(1)]
CitMonth13  == [DeadlineKind |-> Str(S_x), Month |-> Num(13), Day |-> Num(1),
                GroupID |-> Str(S_B), Seq |-> Num(1)]

\* the row with its jurisdiction cell
WithJ(content, cell) == Update(content, [Jurisdiction |-> cell])

WithCitJ(content, cell) == Update(content, ("Jurisdiction (3-letter code)" :> cell))

J_Ger == Str(Ger)
J_deu == Str(<<"d", "e", "u", " ">>)
J_Atl == Str(Atl)
J_Peru == Str(Peru)

LfThresholdRows ==
    { WithJ(ThrAmount, J_Ger), WithJ(ThrNoAmount, J_Ger), WithJ(ThrAmount, J_Atl) }

LfDeadlineRows ==
    { WithJ(DlFixed, J_Ger), WithJ(DlMonth13, J_Ger), WithJ(DlMonth0, J_Ger),
      WithJ(DlReturn, J_Ger), WithJ(DlAnchored, J_Ger),
      WithJ(DlFixed, J_Atl), WithJ(DlFixed, NaN) }

MfThresholdRows ==
    { WithJ(ThrBlank, J_Ger), WithJ(ThrNoAmount, J_deu), WithJ(ThrAmount, J_Peru) }

MfDeadlineRows == { WithJ(DlReturn, J_Ger), WithJ(DlMonth13, J_deu) }

FormRows ==
    { WithJ(Update(DlAnchored, [FormName |-> Str(S_x)]), J_Ger),
      WithJ(Update(DlFixed, [FormName |-> Str(S_x)]), J_deu) }

CbcrRows ==
    { WithJ(CbcrYes, J_Ger), WithJ(CbcrNo, J_Ger), WithJ(CbcrInCit, J_Ger),
      WithJ(CbcrYes, J_Atl) }

CitRows ==
    { WithCitJ(CitFixed, Str(DEU)), WithCitJ(CitRelative, Str(DEU)),
      WithCitJ(CitMonth13, J_deu),
      WithCitJ(CitFixed, J_Ger), WithCitJ(CitFixed, J_Atl), WithCitJ(CitFixed, NaN) }

\* the workbooks tried: complete, without the CIT sheet, without a required
\* sheet, without two of them, without the country sheet and the CIT sheet
Workbooks ==
    { AllSheets, AllSheets \ {CIT_DEADLINES}, AllSheets \ {CBCR},
      AllSheets \ {MF_DEADLINES, LF_THRESHOLD}, AllSheets \ {COUNTRY_REGIONS, CIT_DEADLINES} }

\* the country/region sheets of the compilations tried
CompileMaps == { <<RowGerEU, RowPeru>>, <<RowGerBlank>> }

FYE_2024_12_31 == <<"2", "0", "2", "4", "-", "1", "2", "-", "3", "1">>
FYE_2024_02_30 == <<"2", "0", "2", "4", "-", "0", "2", "-", "3", "0">>

\* the fye arguments tried: none, a date, a string strptime rejects
FyeArgs == { <<>>, FYE_2024_12_31, FYE_2024_02_30 }

\* the fye arguments of the compilations tried
CompileFyes == { <<>>, FYE_2024_12_31 }

\* what datetime.now() may return while compile_rules runs
Clock == { [y |-> 2026, m |-> 11, d |-> 1, hh |-> 9, mm |-> 5],
           [y |-> 2027, m |-> 1, d |-> 2, hh |-> 23, mm |-> 59] }

Init ==
    /\ country_map \in CompileMaps
    /\ input_text = <<>>
    /\ emitted = <<>>
    /\ calc_in = <<>>
    /\ cit_order = <<>>
    /\ cbcr_seen = <<>>
    /\ sheet_names \in Workbooks
    /\ raised = None
    /\ name_to_region = EmptyDict
    /\ code_to_name = EmptyDict
    /\ countries = <<>>
    /\ unmatched = {}
    /\ calls = {}
    /\ fye \in CompileFyes
    /\ nrows = 0
    /\ compiled = None
    /\ pc = "load"

Next ==
    \/ LoadSheets
    \/ \E r \in LfThresholdRows : IngestLfThreshold(r)
    \/ \E r \in LfDeadlineRows : IngestLfDeadline(r)
    \/ \E r \in MfThresholdRows : IngestMfThreshold(r)
    \/ \E r \in MfDeadlineRows : IngestMfDeadline(r)
    \/ \E r \in FormRows : IngestForm(r)
    \/ \E r \in CbcrRows : IngestCbcr(r)
    \/ \E r \in CitRows : IngestCit(r)
    \/ SortGroups
    \/ \E now \in Clock : Enrich(now.y)
    \/ \E now \in Clock : Assemble(now)

Spec == Init /\ [][Next]_vars

------------------------------------------------------------------------------
(* compile_rules.py: the text-based compile pass, one source row at a time *)

\* SEP.split(text): the pieces between the separators | and ; , without the
\* white space SEP takes on both sides of a separator
RECURSIVE SepSplit(_)
SepSplit(s) ==
    LET isSep(ch) == ch \in {"|", ";"}
    IN  IF \E i \in 1..Len(s) : isSep(s[i])
        THEN LET i == CHOOSE j \in 1..Len(s) : isSep(s[j]) /\ \A k \in 1..(j - 1) : ~isSep(s[k])
             IN  <<RStrip(SubSeq(s, 1, i - 1))>> \o SepSplit(LStrip(SubSeq(s, i + 1, Len(s))))
        ELSE <<s>>

\* p.strip(" -\t") (the en and em dash of the source's set occur in no input)
RECURSIVE StripDashes(_)
StripDashes(p) ==
    LET junk == {" ", "-", "\t"}
    IN  IF p = <<>> THEN p
        ELSE IF Head(p) \in junk THEN StripDashes(Tail(p))
        ELSE IF p[Len(p)] \in junk THEN StripDashes(SubSeq(p, 1, Len(p) - 1))
        ELSE p

\* split_multi(text)
split_multi(txt) ==
    IF txt = <<>> THEN <<>>
    ELSE LET pieces == SepSplit(txt)
             kept   == SelectSeq(pieces, LAMBDA p : strip(p) # <<>>)
         IN  [i \in 1..Len(kept) |-> StripDashes(kept[i])]

\* classify_deadline(x) or default
ClassOrEmptyMutant(cls, default) == cls

ClassOr(cls, default) == IF cls # <<>> THEN cls ELSE default

S_prepare == <<"p", "r", "e", "p", "a", "r", "e">>
S_submit == <<"s", "u", "b", "m", "i", "t">>
S_upon_request_kind == <<"u", "p", "o", "n", "_", "r", "e", "q", "u", "e", "s", "t">>
Col_prep == "Preparation Deadline (Contemporaneous Requirement)"
Col_subm == "Submission Requirement (Statutory or Upon Request)"
Col_urd == "Deadline for Submission Upon Request (in Days)"
Col_sd == "Master File Submission Deadline"
Col_dt == "Details on Submission / Preparation Date"
Col_nm == "TP Form, Return, or Specific Disclosure"
Col_dl == "Submission Deadline (for FYE 31/12)"

\* records the TPD deadlines loop appends for one row (lines 244-259)
TpdDeadlineRecords(r, fye_str) ==
    LET prep_items == split_multi(clean(Cell(r, Col_prep)))
        subm_items == split_multi(clean(Cell(r, Col_subm)))
        ur         == clean(Cell(r, Col_urd))
        txt        == <<"P", "r", "o", "v", "i", "d", "e", " ", "u", "p", "o", "n", " ", "r", "e", "q", "u", "e", "s", "t", " ", "w", "i", "t", "h", "i", "n", " ">> \o ur \o <<" ", "d", "a", "y", "s">>
    IN  [i \in 1..Len(prep_items) |->
            decorate_deadline([kind |-> S_prepare, text |-> prep_items[i],
                               class |-> ClassOr(classify_deadline(prep_items[i]), S_SOFT)],
                              fye_str)]
        \o [i \in 1..Len(subm_items) |->
            decorate_deadline([kind |-> S_submit, text |-> subm_items[i],
                               class |-> ClassOr(classify_deadline(subm_items[i]), S_HARD)],
                              fye_str)]
        \o (IF ur # <<>>
            THEN <<decorate_deadline([kind |-> S_upon_request_kind, text |-> txt,
                                      class |-> ClassOr(classify_deadline(txt), S_SOFT)],
                                     fye_str)>>
            ELSE <<>>)

\* records the MF deadlines loop appends for one row (lines 289-296)
MfDeadlineRecords(r, fye_str) ==
    LET sd_items == SelectSeq(split_multi(clean(Cell(r, Col_sd))), LAMBDA x : x # <<>>)
        dt_items == SelectSeq(split_multi(clean(Cell(r, Col_dt))), LAMBDA x : x # <<>>)
    IN  [i \in 1..Len(sd_items) |->
            decorate_deadline([text |-> sd_items[i],
                               class |-> ClassOr(classify_deadline(sd_items[i]), S_HARD)],
                              fye_str)]
        \o [i \in 1..Len(dt_items) |->
            decorate_deadline([text |-> dt_items[i],
                               class |-> ClassOr(classify_deadline(dt_items[i]), S_SOFT)],
                              fye_str)]

\* records the forms loop appends for one row (lines 308-311)
FormRecords(r, fye_str) ==
    LET name  == clean(Cell(r, Col_nm))
        items == split_multi(clean(Cell(r, Col_dl)))
    IN  [i \in 1..Len(items) |->
            decorate_deadline([name |-> name, deadline |-> items[i],
                               class |-> ClassOr(classify_deadline(items[i]), S_HARD)],
                              fye_str)]

------------------------------------------------------------------------------
(* Inputs of the text utilities *)

\* bound: largest N of the "N months after ..." phrases tried
MaxOffset == 12

\* how the phrases name the fiscal year end
FyeRefs == { <<"F", "Y", "E">>, <<"y", "e", "a", "r", "-", "e", "n", "d">> }

RelPhrase(n, ref) == NatToStr(n) \o <<" ", "m", "o", "n", "t", "h", "s", " ", "a", "f", "t", "e", "r", " ">> \o ref

T_Submit == <<"S", "u", "b", "m", "i", "t">>
T_FYE == <<"F", "Y", "E">>
T_year_end == <<"y", "e", "a", "r", "-", "e", "n", "d">>
T_Upon_Request == <<"U", "p", "o", "n", " ", "R", "e", "q", "u", "e", "s", "t">>
T_Not_Applicable == <<"N", "o", "t", " ", "A", "p", "p", "l", "i", "c", "a", "b", "l", "e">>
T_by_31_March == <<"b", "y", " ", "3", "1", " ", "M", "a", "r", "c", "h">>
T_15_04 == <<"1", "5", "/", "0", "4">>

\* what a deadline cell may say
BaseTexts ==
    { T_Submit, S_prepare, T_Upon_Request, T_Not_Applicable, T_by_31_March,
      T_15_04, T_year_end, T_FYE, <<"d", "o", "c", "s">>, <<"m", "a", "r", "c", "h", "i", "n", "g">>, <<"-">> }

CoreTexts ==
    {<<>>} \cup BaseTexts \cup {RelPhrase(n, ref) : n \in 0..MaxOffset, ref \in FyeRefs}

Joiners == { <<" ">>, <<";", " ">> }

\* what may stand in front of it in the same cell
LeadTexts == { T_Submit, S_prepare, T_Upon_Request, T_by_31_March, T_15_04, <<"-">> }

Texts == CoreTexts \cup {b \o j \o c : b \in LeadTexts, j \in Joiners, c \in CoreTexts \ {<<>>}}

\* a fiscal year end in month f
FyeOfMonth(f) == <<"2", "0", "2", "5", "-">> \o ZeroPad(NatToStr(f), 2) \o <<"-", "2", "8">>

\* the fye values tried: none, one fromisoformat rejects, one per month
TextFyes == { <<>>, FYE_2024_02_30 } \cup {FyeOfMonth(f) : f \in 1..12}

InitText ==
    /\ input_text \in Texts
    /\ fye \in TextFyes
    /\ emitted = <<>>
    /\ calc_in = <<>>
    /\ cit_order = <<>>
    /\ cbcr_seen = <<>>
    /\ sheet_names = AllSheets
    /\ raised = None
    /\ country_map = <<>>
    /\ name_to_region = EmptyDict
    /\ code_to_name = EmptyDict
    /\ countries = <<>>
    /\ unmatched = {}
    /\ calls = {}
    /\ nrows = 0
    /\ compiled = None
    /\ pc = "text"

TextFrame ==
    UNCHANGED <<cbcr_seen, sheet_names, raised, calc_in, cit_order, input_text, fye, country_map, name_to_region, code_to_name, countries,
                unmatched, calls, nrows, compiled>>

\* classify_deadline(text)
Classify ==
    /\ pc = "text"
    /\ emitted' = <<[class |-> classify_deadline(input_text)]>>
    /\ pc' = "classified"
    /\ TextFrame

\* _month_from_text(text, fye)
MonthFromText ==
    /\ pc = "text"
    /\ emitted' = <<[month |-> month_from_text(input_text, fye)]>>
    /\ pc' = "month"
    /\ TextFrame

\* one row of the TPD deadlines sheet whose cell in column col holds the text
EmitTpdDeadlines(col) ==
    /\ pc = "text"
    /\ emitted' = TpdDeadlineRecords(col :> Str(input_text), fye)
    /\ pc' = col
    /\ TextFrame

\* one row of the MF deadlines sheet whose cell in column col holds the text
EmitMfDeadlines(col) ==
    /\ pc = "text"
    /\ emitted' = MfDeadlineRecords(col :> Str(input_text), fye)
    /\ pc' = col
    /\ TextFrame

\* one row of the forms sheet whose deadline cell holds the text
EmitForms ==
    /\ pc = "text"
    /\ emitted' = FormRecords((Col_dl :> Str(input_text)) @@ (Col_nm :> Str(S_x)), fye)
    /\ pc' = Col_dl
    /\ TextFrame

NextText ==
    \/ Classify
    \/ MonthFromText
    \/ \E col \in {Col_prep, Col_subm, Col_urd} : EmitTpdDeadlines(col)
    \/ \E col \in {Col_sd, Col_dt} : EmitMfDeadlines(col)
    \/ EmitForms

SpecText == InitText /\ [][NextText]_vars

------------------------------------------------------------------------------
(* Direct calls of calculate_deadline_from_cit *)

\* bound: tax-filing records of the country in a direct call
MaxCit == 2

S_return_due_date == <<"r", "e", "t", "u", "r", "n", "_", "d", "u", "e", "_", "d", "a", "t", "e">>
S_after_tax_filing == <<"a", "f", "t", "e", "r", " ", "t", "a", "x", "_", "f", "i", "l", "i", "n", "g">>
S_with_Tax_Return == <<"w", "i", "t", "h", " ", "T", "a", "x", " ", "R", "e", "t", "u", "r", "n">>

\* the deadline rows tried: every combination of kind, event anchor, display
\* text and offsets
CalcDeadlineRows ==
    { [DeadlineKind |-> Str(kind), EventAnchor |-> Str(anchor), DisplayText |-> Str(txt),
       OffsetMonths |-> off[1], OffsetDays |-> off[2],
       Month |-> Num(11), Day |-> Num(1), GroupID |-> Str(S_A), Seq |-> Num(1)] :
      kind \in {S_FIXED_DATE, S_return_due_date},
      anchor \in {<<>>, S_after_tax_filing},
      txt \in {<<>>, S_x, S_with_Tax_Return},
      off \in { <<NaN, NaN>>, <<Num(0), Num(0)>>, <<Num(1), Str(<<"4", "5">>)>>,
                <<Num(-1), NaN>> } }

\* a fixed tax-filing date without its day
CitNoDay == [DeadlineKind |-> Str(S_FIXED_DATE), Month |-> Num(3), Day |-> NaN,
             GroupID |-> Str(S_A), Seq |-> Num(1)]

CalcCitRecords ==
    {pack_cit_row(r) : r \in {CitFixed, CitRelative, CitFeb30, CitMonth13, CitNoDay}}

CalcCitLists == UNION {[1..n -> CalcCitRecords] : n \in 0..MaxCit}

InitCalc ==
    /\ calc_in \in [deadline_info : {pack_deadline_row(r) : r \in CalcDeadlineRows},
                    cit_deadlines : CalcCitLists]
    /\ fye \in FyeArgs
    /\ cbcr_seen = <<>>
    /\ sheet_names = AllSheets
    /\ raised = None
    /\ emitted = <<>>
    /\ input_text = <<>>
    /\ cit_order = <<>>
    /\ country_map = <<>>
    /\ name_to_region = EmptyDict
    /\ code_to_name = EmptyDict
    /\ countries = <<>>
    /\ unmatched = {}
    /\ calls = {}
    /\ nrows = 0
    /\ compiled = None
    /\ pc = "calc"

\* calculate_deadline_from_cit(deadline_info, cit_deadlines, fye) while
\* datetime.now().year is now_year
Calculate(now_year) ==
    /\ pc = "calc"
    /\ emitted' = <<calculate_deadline_from_cit(calc_in.deadline_info, calc_in.cit_deadlines,
                                                fye, now_year)>>
    /\ pc' = "calculated"
    /\ UNCHANGED <<cbcr_seen, sheet_names, raised, calc_in, cit_order, input_text, fye, country_map, name_to_region,
                   code_to_name, countries, unmatched, calls, nrows, compiled>>

NextCalc == \E now \in Clock : Calculate(now.y)

SpecCalc == InitCalc /\ [][NextCalc]_vars

------------------------------------------------------------------------------
(* Claims about the identity resolver *)

\* Token t denotes the country of map row r: its name in any letter case, or
\* its 3-letter code in any letter case, surrounding whitespace ignored.
Denotes(t, r) ==
    LET tok == strip(t)
    IN  /\ tok # <<>>
        /\ \/ clean(r.Country) # <<>> /\ lower(tok) = lower(clean(r.Country))
           \/ clean(r.Code_3) # <<>> /\ upper(tok) = upper(clean(r.Code_3))

RecordsReturnedFor(r) == {c[2] : c \in {d \in calls : Denotes(d[1], r)}}

\* C1: for any sequence of ensure_country calls with a fixed country map, all
\* tokens denoting the same country of the map (name or code, any case,
\* surrounding whitespace) return the same Country Record, and the registry
\* holds exactly one record for that country.
C1_IdentityUnique ==
    \A n \in 1..Len(country_map) :
        LET ks == RecordsReturnedFor(country_map[n])
        IN  /\ Cardinality(ks) <= 1
            /\ ks # {} =>
                 Cardinality({i \in 1..Len(countries) : Some(countries[i].key) \in ks}) = 1

\* The same statement restricted to map rows that carry a region (the rows
\* load_country_map keeps); it holds.
C1_UniqueWhenRegionPresent ==
    \A n \in 1..Len(country_map) :
        clean(Cell(country_map[n], "Region")) # <<>> =>
            LET ks == RecordsReturnedFor(country_map[n])
            IN  /\ Cardinality(ks) <= 1
                /\ ks # {} =>
                     Cardinality({i \in 1..Len(countries) : Some(countries[i].key) \in ks}) = 1

CallsByCode(code) == {c \in calls : upper(strip(c[1])) = code}

CallsByName(canon) == {c \in calls : strip(c[1]) = canon}

\* The case of C2: a recognized code and the canonical name it maps to have
\* both been used, and no other spelling has reached that record.
C2_Case(code) ==
    LET canon == code_to_name[code]
    IN  /\ canon # <<>>
        /\ CallsByCode(code) # {}
        /\ CallsByName(canon) # {}
        /\ {c \in calls : c[2] = Some(lower(canon))}
              \subseteq (CallsByCode(code) \cup CallsByName(canon))

------------------------------------------------------------------------------
(* Claims about compile_rules (compile_rules2.py) *)

\* the token is neither a code nor a name of the loaded country/region map
Unrecognized(t) ==
    /\ upper(t) \notin DOMAIN code_to_name
    /\ lower(t) \notin DOMAIN name_to_region

\* C3: a source row whose jurisdiction token is neither a recognized code nor
\* a recognized name gets no Country Record (ensure_country returns none, no
\* record is created for it) and its token is in the unmatched set.
C3_UnrecognizedSkipped ==
    \A c \in calls :
        Unrecognized(c[1]) =>
            /\ c[2] = None
            /\ c[1] \in unmatched
            /\ ~HasKey(countries, lower(c[1]))

\* the deadline-bearing records of a sequence of countries: local-file and
\* master-file deadlines, forms and notifications
AnchorableRecords(cs) ==
    UNION { {cs[i].lf_tpd_deadlines[k] : k \in 1..Len(cs[i].lf_tpd_deadlines)}
            \cup {cs[i].mf_deadlines[k] : k \in 1..Len(cs[i].mf_deadlines)}
            \cup {cs[i].tp_forms[k] : k \in 1..Len(cs[i].tp_forms)}
            \cup {cs[i].cbcr[k] : k \in 1..Len(cs[i].cbcr)} : i \in 1..Len(cs) }

\* ... and the tax-filing deadlines
DeadlineRecords(cs) ==
    AnchorableRecords(cs)
    \cup UNION { {cs[i].cit_deadlines[k] : k \in 1..Len(cs[i].cit_deadlines)} : i \in 1..Len(cs) }

\* the countries of the compiled document, or of the registry while compiling
Document == IF compiled = None THEN countries ELSE compiled[1].countries

\* C7: every deadline-bearing record of the compiled document has month null
\* or in 1..12, whatever the source row's Month field held, also after the
\* second pass.
C7_MonthInRange ==
    \A rec \in DeadlineRecords(Document) :
        rec.month = None \/ (1 <= rec.month[1] /\ rec.month[1] <= 12)

HasCalculatedDate(rec) == "calculated_date" \in DOMAIN rec

\* C10: compiled with an empty fye, no deadline, form or notification record
\* of any country has a calculated_date, at any point and in the document.
C10_NoCalculatedDateWithoutFye ==
    fye = <<>> =>
        \A rec \in AnchorableRecords(countries) \cup AnchorableRecords(Document) :
            ~HasCalculatedDate(rec)

\* an empty-fye compilation has finished for a country that has a fixed
\* tax-filing date and a deadline anchored to it
C10_Witness ==
    /\ pc = "done"
    /\ fye = <<>>
    /\ \E i \in 1..Len(countries) :
          /\ countries[i].cit_deadlines # <<>>
          /\ upper(countries[i].cit_deadlines[1].deadline_kind) = S_FIXED_DATE
          /\ countries[i].cit_deadlines[1].month = Some(3)
          /\ \E rec \in AnchorableRecords(<<countries[i]>>) : is_tax_return_based(rec)

------------------------------------------------------------------------------
(* Claims about the text utilities (compile_rules.py) *)

\* the value the last call returned
Returned == emitted[1]

HardMatches(txt) == Search(HARD_PAT, lower(txt))
SoftMatches(txt) == Search(SOFT_PAT, lower(txt))

\* C4: classify_deadline returns HARD whenever the HARD pattern matches, also
\* when the SOFT pattern matches too; SOFT when only the SOFT pattern matches;
\* the empty class when neither matches or the text is empty.
C4_Classification ==
    pc = "classified" =>
        Returned.class =
            (IF input_text = <<>> THEN <<>>
             ELSE IF HardMatches(input_text) THEN S_HARD
             ELSE IF SoftMatches(input_text) THEN S_SOFT
             ELSE <<>>)

\* a text both patterns match has been classified
C4_Witness ==
    /\ pc = "classified"
    /\ HardMatches(input_text) /\ SoftMatches(input_text)
    /\ Returned.class = S_HARD

\* the default class of the column a record comes from
DefaultClass(col) == IF col \in {Col_subm, Col_sd, Col_dl} THEN S_HARD ELSE S_SOFT

EmitColumns == {Col_prep, Col_subm, Col_urd, Col_sd, Col_dt, Col_dl}

\* C5: every record the text-based pass emits has class HARD or SOFT: the
\* classifier's class when it returns one, else HARD for submit, master-file
\* submission and form deadlines and SOFT for prepare, upon-request and
\* master-file detail deadlines.
C5_ClassNeverEmpty ==
    pc \in EmitColumns =>
        \A i \in 1..Len(emitted) :
            LET cls == classify_deadline(TextOrDeadline(emitted[i]))
            IN  /\ emitted[i].class \in {S_HARD, S_SOFT}
                /\ cls # <<>> => emitted[i].class = cls
                /\ cls = <<>> => emitted[i].class = DefaultClass(pc)

\* a submit deadline neither pattern matches got HARD
C5_Witness ==
    /\ pc = Col_subm
    /\ \E i \in 1..Len(emitted) :
          /\ emitted[i].text # <<>>
          /\ ~HardMatches(emitted[i].text) /\ ~SoftMatches(emitted[i].text)
          /\ emitted[i].class = S_HARD

\* the text says "upon request" or "not applicable"
SaysUndated(txt) ==
    \/ Contains(lower(txt), lower(T_Upon_Request))
    \/ Contains(lower(txt), lower(T_Not_Applicable))

\* some dated rule of _month_from_text applies to the text
SaysDate(txt) ==
    \/ Search(MONTH_RE, lower(txt))
    \/ Search(SeqOfRs(<<NUMERIC_HEAD, NUMERIC_MONTH>>), lower(txt))
    \/ Search(REL, lower(txt))
    \/ Contains(lower(txt), S_year_end)

\* C6: _month_from_text returns none or an integer in 1..12, whatever the
\* text and the fiscal year end; it returns none for every text that says
\* "upon request" or "not applicable", whatever else the text says.  The
\* records _decorate_deadline fills carry the same month.
C6_MonthFromTextRange ==
    /\ pc = "month" =>
          /\ Returned.month = None \/ Returned.month[1] \in 1..12
          /\ SaysUndated(input_text) => Returned.month = None
    /\ pc \in EmitColumns =>
          \A i \in 1..Len(emitted) :
              /\ emitted[i].month = None \/ emitted[i].month[1] \in 1..12
              /\ SaysUndated(TextOrDeadline(emitted[i])) => emitted[i].month = None

\* an undated text that also names a date, with a valid fiscal year end
C6_Witness ==
    /\ pc = "month"
    /\ SaysUndated(input_text) /\ SaysDate(input_text)
    /\ \E f \in 1..12 : fye = FyeOfMonth(f)
    /\ Returned.month = None

\* no rule in front of the year-end rules applies (lines 63-74)
NoEarlierRule(txt) ==
    /\ ~SaysUndated(txt)
    /\ ~Search(MONTH_RE, lower(txt))
    /\ ~Search(SeqOfRs(<<NUMERIC_HEAD, NUMERIC_MONTH>>), lower(txt))

\* the phrase stands in the text, not behind another digit
HasPhrase(txt, phrase) ==
    \E i \in 1..(Len(txt) - Len(phrase) + 1) :
        /\ SubSeq(txt, i, i + Len(phrase) - 1) = phrase
        /\ i = 1 \/ ~IsDigit(txt[i - 1])

C9_BareYearEnd ==
    pc = "month" =>
        \A f \in 1..12 :
            ( /\ fye = FyeOfMonth(f)
              /\ NoEarlierRule(input_text)
              /\ ~Search(REL, lower(input_text))
              /\ \/ Contains(lower(input_text), lower(T_year_end))
                 \/ Contains(lower(input_text), lower(T_FYE)) )
            => Returned.month = Some(f)

\* the same for "year-end" alone, the spelling line 89 looks for
C9_YearEndSpelling ==
    pc = "month" =>
        \A f \in 1..12 :
            ( /\ fye = FyeOfMonth(f)
              /\ NoEarlierRule(input_text)
              /\ ~Search(REL, lower(input_text))
              /\ Contains(lower(input_text), lower(T_year_end)) )
            => Returned.month = Some(f)

------------------------------------------------------------------------------
(* Claims about calculate_deadline_from_cit, called directly *)

CalcDone == pc = "calculated"

\* the record handed in, the country's tax-filing records, the record returned
GivenRecord == calc_in.deadline_info
GivenCits == calc_in.cit_deadlines
ReturnedRecord == emitted[1]

\* the record refers to the tax return: by its kind, its event anchor or its
\* text, in any case
RefersToTaxReturn(rec) ==
    \/ \E ind \in tax_return_indicators : lower(rec.deadline_kind) = lower(ind)
    \/ \E ind \in tax_return_indicators : Contains(lower(rec.event_anchor), lower(ind))
    \/ Contains(lower(rec.text), S_tax_return)

\* the fiscal year end as a date, None when missing or unparseable
FyeDate == strptime_ymd(fye)

FirstCitKind == upper(GivenCits[1].deadline_kind)

\* the first tax-filing record is a fixed date with a usable month and day
FixedDateUsable(year) ==
    /\ FirstCitKind = S_FIXED_DATE
    /\ GivenCits[1].month # None /\ GivenCits[1].day # None
    /\ ValidDate(year, GivenCits[1].month[1], GivenCits[1].day[1])

\* the cases in which the tax-filing deadline cannot be resolved
CannotResolve ==
    \/ fye = <<>>
    \/ FyeDate = None
    \/ GivenCits = <<>>
    \/ FirstCitKind \notin {S_FIXED_DATE, S_FYE_RELATIVE}
    \/ FirstCitKind = S_FIXED_DATE /\ ~FixedDateUsable(FyeDate[1].y + 1)

\* C11: calculate_deadline_from_cit returns an anchored record unchanged, with
\* no calculated_date, whenever the tax-filing deadline cannot be resolved:
\* fiscal year end missing or unparseable, no tax-filing records, first
\* record's kind neither FIXED_DATE nor FYE_RELATIVE, or FIXED_DATE with a
\* missing or invalid month/day.
C11_UnresolvedPassesThrough ==
    CalcDone /\ RefersToTaxReturn(GivenRecord) /\ CannotResolve =>
        ReturnedRecord = GivenRecord

\* the same with the missing fiscal year end left out of the cases
C11_UnresolvedWithFye ==
    CalcDone /\ RefersToTaxReturn(GivenRecord) /\ fye # <<>> /\ CannotResolve =>
        ReturnedRecord = GivenRecord

\* T plus the record's own offsets, as the string calculated_date holds
PlusOwnOffsets(T) ==
    strftime_ymd(AddRelativeDelta(T, OrZero(GivenRecord.offset_months),
                                  OrZero(GivenRecord.offset_days))[1])

\* C12: with a valid fiscal year end, a FIXED_DATE anchor resolves to (FYE
\* year + 1, its month, its day) and a FYE_RELATIVE anchor to FYE plus the
\* anchor's offsets; an anchor fixed at 3/31 with FYE 2024-12-31 and a
\* deadline with zero offsets gives calculated_date 2025-03-31.
C12_TaxFilingDate ==
    CalcDone /\ RefersToTaxReturn(GivenRecord) /\ GivenCits # <<>> /\ FyeDate # None =>
        /\ FixedDateUsable(FyeDate[1].y + 1) =>
              /\ HasCalculatedDate(ReturnedRecord)
              /\ ReturnedRecord.calculated_date =
                     PlusOwnOffsets(Date(FyeDate[1].y + 1, GivenCits[1].month[1],
                                         GivenCits[1].day[1]))
        /\ FirstCitKind = S_FYE_RELATIVE =>
              /\ HasCalculatedDate(ReturnedRecord)
              /\ ReturnedRecord.calculated_date =
                     PlusOwnOffsets(AddRelativeDelta(FyeDate[1],
                                                     OrZero(GivenCits[1].offset_months),
                                                     OrZero(GivenCits[1].offset_days))[1])
        /\ ( /\ fye = FYE_2024_12_31
             /\ FirstCitKind = S_FIXED_DATE
             /\ GivenCits[1].month = Some(3) /\ GivenCits[1].day = Some(31)
             /\ OrZero(GivenRecord.offset_months) = 0
             /\ OrZero(GivenRecord.offset_days) = 0 ) =>
              ReturnedRecord.calculated_date = <<"2", "0", "2", "5", "-", "0", "3", "-", "3", "1">>

\* the scenario of the specification has been computed
C12_Witness ==
    /\ CalcDone
    /\ fye = FYE_2024_12_31
    /\ RefersToTaxReturn(GivenRecord)
    /\ GivenRecord.offset_months = Some(0)
    /\ Len(GivenCits) = 2
    /\ GivenCits[1].month = Some(3) /\ GivenCits[1].day = Some(31)
    /\ ReturnedRecord.calculated_date = <<"2", "0", "2", "5", "-", "0", "3", "-", "3", "1">>

\* the calculated_date of the returned record, as a date
ReturnedDate == strptime_ymd(ReturnedRecord.calculated_date)[1]

\* C13: when the tax-filing date T was resolved, calculated_date is T plus the
\* record's own offset_months and offset_days (null counts as 0), and month,
\* day and month_name of the returned record are those of calculated_date.
C13_CalculatedDate ==
    CalcDone /\ HasCalculatedDate(ReturnedRecord) =>
        /\ \E now \in Clock :
              LET T == cit_date_of(GivenCits[1], fye, now.y)
              IN  T # None /\ ReturnedRecord.calculated_date = PlusOwnOffsets(T[1])
        /\ ReturnedRecord.month = Some(ReturnedDate.m)
        /\ ReturnedRecord.day = Some(ReturnedDate.d)
        /\ ReturnedRecord.month_name = month_abbr[ReturnedDate.m]

\* a record with a month and a day offset, and a stale month, was resolved
C13_Witness ==
    /\ CalcDone
    /\ HasCalculatedDate(ReturnedRecord)
    /\ GivenRecord.offset_months = Some(1) /\ GivenRecord.offset_days = Some(45)
    /\ GivenRecord.month # ReturnedRecord.month

\* the text enrichment writes for a record without one
SynthesizedText ==
    IF OrZero(GivenRecord.offset_months) = 0 /\ OrZero(GivenRecord.offset_days) = 0
    THEN <<"D", "u", "e", " ", "w", "i", "t", "h", " ", "t", "a", "x", " ", "r", "e", "t", "u", "r", "n", " ", "(">> \o strftime_long(ReturnedDate) \o <<")">>
    ELSE IntToStr(OrZero(GivenRecord.offset_months)) \o <<"m", " ">>
         \o IntToStr(OrZero(GivenRecord.offset_days)) \o <<"d", " ", "a", "f", "t", "e", "r", " ", "t", "a", "x", " ", "r", "e", "t", "u", "r", "n", " ", "(">>
         \o strftime_long(ReturnedDate) \o <<")">>

\* C14: a non-empty text is the same after calculate_deadline_from_cit; a
\* text is synthesized ("Due with tax return (...)" for zero offsets, "Nm Md
\* after tax return (...)" otherwise) only when the text was empty.
C14_TextNeverOverwritten ==
    CalcDone =>
        /\ GivenRecord.text # <<>> => ReturnedRecord.text = GivenRecord.text
        /\ GivenRecord.text = <<>> /\ HasCalculatedDate(ReturnedRecord) =>
              ReturnedRecord.text = SynthesizedText
        /\ GivenRecord.text = <<>> /\ ~HasCalculatedDate(ReturnedRecord) =>
              ReturnedRecord.text = <<>>

\* a record with a text of its own was enriched
C14_Witness ==
    /\ CalcDone
    /\ HasCalculatedDate(ReturnedRecord)
    /\ GivenRecord.text = S_with_Tax_Return
    /\ ReturnedRecord.text = S_with_Tax_Return

\* the tax-filing date can be resolved for some reading of the clock
CanResolve ==
    GivenCits # <<>> /\ \E now \in Clock : cit_date_of(GivenCits[1], fye, now.y) # None

\* C15: a record is treated as anchored iff its kind is a tax-return
\* indicator, its event anchor contains one or its text contains "tax return"
\* (case-insensitive); every other record is returned unchanged, without a
\* calculated_date.
C15_AnchoredIff ==
    CalcDone =>
        /\ ~RefersToTaxReturn(GivenRecord) => ReturnedRecord = GivenRecord
        /\ RefersToTaxReturn(GivenRecord) /\ CanResolve => HasCalculatedDate(ReturnedRecord)

\* a record that does not refer to the tax return came back unchanged although
\* the tax-filing date could be resolved
C15_Witness ==
    /\ CalcDone
    /\ ~RefersToTaxReturn(GivenRecord)
    /\ CanResolve
    /\ ReturnedRecord = GivenRecord

------------------------------------------------------------------------------
(* Claims about the second pass and the ordering of the compiled document *)

\* the tax-filing records of one country in the order their rows were read
EncounteredCits(key) ==
    LET own == SelectSeq(cit_order, LAMBDA e : e[1] = key)
    IN  [k \in 1..Len(own) |-> own[k][2]]

\* the lists of a country the second pass rewrites
AnchorableLists == {"lf_tpd_deadlines", "mf_deadlines", "tp_forms"}

\* every record the second pass hands to the calculator is, afterwards, what
\* the calculator returns for it with anchor as the only tax-filing record
ResolvedAgainst(before, after, anchor, now_year) ==
    /\ \A f \in AnchorableLists : \A k \in 1..Len(before[f]) :
           after[f][k] = calculate_deadline_from_cit(before[f][k], <<anchor>>, fye, now_year)
    /\ before.cbcr # None =>
           after.cbcr = Some(calculate_deadline_from_cit(before.cbcr[1], <<anchor>>, fye,
                                                         now_year))

\* (group_id, seq) of x is less than that of y
GroupSeqLess(x, y) ==
    \/ StrLess(x.group_id, y.group_id)
    \/ x.group_id = y.group_id /\ x.seq < y.seq

\* the record with the least (group_id, seq); of several, the first read
LeastGroupSeq(recs) ==
    recs[CHOOSE i \in 1..Len(recs) :
             \A j \in 1..Len(recs) :
                 /\ j < i => GroupSeqLess(recs[i], recs[j])
                 /\ j > i => ~GroupSeqLess(recs[j], recs[i])]

\* C16 (as stated): when a country has several tax-filing records, every
\* anchored deadline of the country is resolved against the record read first
\* among the source rows, whatever its taxpayer type, group id or seq, and no
\* other tax-filing record influences a calculated_date.
C16_FirstEncounteredAnchor ==
    pc = "sorted" /\ fye # <<>> =>
        \A now \in Clock : \A i \in 1..Len(countries) :
            EncounteredCits(countries[i].key) # <<>> =>
                ResolvedAgainst(countries[i], SecondPass(countries, fye, now.y)[i],
                                EncounteredCits(countries[i].key)[1], now.y)

\* C16 (amended): every anchored deadline of a country is resolved against the
\* tax-filing record with the least (group_id, seq), the first read among
\* several with that key, whatever its taxpayer type; no other tax-filing
\* record influences a calculated_date.
C16_LeastGroupSeqAnchor ==
    pc = "sorted" /\ fye # <<>> =>
        \A now \in Clock : \A i \in 1..Len(countries) :
            EncounteredCits(countries[i].key) # <<>> =>
                ResolvedAgainst(countries[i], SecondPass(countries, fye, now.y)[i],
                                LeastGroupSeq(EncounteredCits(countries[i].key)), now.y)

\* after the second pass: a country whose first-read tax-filing record is not
\* the one with the least key, and a deadline resolved to FYE + 5m 15d
C16_Witness ==
    /\ pc = "enriched"
    /\ fye = FYE_2024_12_31
    /\ \E i \in 1..Len(countries) :
          LET enc == EncounteredCits(countries[i].key)
          IN  /\ Len(enc) = 2
              /\ enc[1] # LeastGroupSeq(enc)
              /\ enc[1].taxpayer_type # enc[2].taxpayer_type
              /\ \E k \in 1..Len(countries[i].lf_tpd_deadlines) :
                    /\ HasCalculatedDate(countries[i].lf_tpd_deadlines[k])
                    /\ countries[i].lf_tpd_deadlines[k].calculated_date = <<"2", "0", "2", "5", "-", "0", "6", "-", "1", "5">>

\* the six lists sort_group is applied to
GroupLists ==
    {"lf_tpd_thresholds", "lf_tpd_deadlines", "mf_thresholds", "mf_deadlines",
     "tp_forms", "cit_deadlines"}

NonDecreasing(recs) ==
    \A i, j \in 1..Len(recs) : i < j => ~GroupSeqLess(recs[j], recs[i])

AllListsOrdered(cs) ==
    \A i \in 1..Len(cs) : \A f \in GroupLists : NonDecreasing(cs[i][f])

\* C17: in the compiled document every record list of every country (both
\* threshold lists, both deadline lists, forms, tax-filing deadlines) is in
\* non-decreasing (group_id, seq) order; the lists are so from the sort on,
\* also after the second pass has replaced records.
C17_GroupOrdering ==
    /\ pc \in {"sorted", "enriched", "done"} => AllListsOrdered(countries)
    /\ pc = "done" => AllListsOrdered(Document)

\* a document with a list of two records whose keys differ, one of them
\* replaced by the second pass
C17_Witness ==
    /\ pc = "done"
    /\ \E i \in 1..Len(Document) :
          LET dl == Document[i].lf_tpd_deadlines
          IN  /\ Len(dl) = 2
              /\ GroupSeqLess(dl[1], dl[2])
              /\ HasCalculatedDate(dl[1])
              /\ Len(Document[i].cit_deadlines) = 1

\* the rearrangements of a list
Rearrangements(recs) ==
    LET n == Len(recs)
        P == {p \in [1..n -> 1..n] : \A a, b \in 1..n : p[a] = p[b] => a = b}
    IN  {[k \in 1..n |-> recs[p[k]]] : p \in P}

\* C18: the order of the records within each list of a country does not
\* depend on the order of the source rows: the rows read in any other order
\* give the same sorted list, also when several rows share (group_id, seq).
C18_OrderIndependent ==
    pc = "sorted" =>
        \A i \in 1..Len(countries) : \A f \in GroupLists :
            \A other \in Rearrangements(countries[i][f]) :
                sort_group(other) = countries[i][f]

\* the same for lists whose records have pairwise different (group_id, seq)
C18_OrderIndependentDistinctKeys ==
    pc = "sorted" =>
        \A i \in 1..Len(countries) : \A f \in GroupLists :
            LET recs == countries[i][f]
            IN  (\A a, b \in 1..Len(recs) :
                     a # b => GroupSeqLess(recs[a], recs[b]) \/ GroupSeqLess(recs[b], recs[a]))
                => \A other \in Rearrangements(recs) : sort_group(other) = recs

\* (region, name) of x is less than that of y, both without regard to case
FoldedRegionNameLess(x, y) ==
    \/ StrLess(lower(x.region), lower(y.region))
    \/ lower(x.region) = lower(y.region) /\ StrLess(lower(x.name), lower(y.name))

\* the same with the region compared as it is spelled
RegionNameLess(x, y) ==
    \/ StrLess(x.region, y.region)
    \/ x.region = y.region /\ StrLess(lower(x.name), lower(y.name))

\* C19 (as stated): in the compiled document the countries are ascending by
\* (region, name), region and name both compared case-insensitively.
C19_CountriesCaseInsensitive ==
    pc = "done" =>
        \A i, j \in 1..Len(Document) :
            i < j => ~FoldedRegionNameLess(Document[j], Document[i])

\* C19 (amended): in the compiled document the countries are ascending by
\* (region, name), the region compared as spelled (capitals before lower
\* case) and the name case-insensitively.
C19_CountriesByRegionThenName ==
    pc = "done" =>
        \A i, j \in 1..Len(Document) :
            i < j => ~RegionNameLess(Document[j], Document[i])

\* a document whose countries were created in the other order, with regions
\* that differ in case
C19_Witness ==
    /\ pc = "done"
    /\ Len(Document) = 2
    /\ countries[1].key = Document[2].key
    /\ Document[1].region = EU
    /\ Document[2].region = Am

\* the document built from a registry, without its generation stamp
DocumentBody(registry) ==
    [fye |-> fye, countries |-> SortedBy("country", registry)]

\* C20: compiling the same tables with the same fiscal year end again gives
\* the same document except for generated_at: whatever the clock reads during
\* the second pass, the records, their calculated_date and month and the
\* order are the same.
C20_Reproducible ==
    pc = "sorted" =>
        \A n1, n2 \in Clock :
            DocumentBody(SecondPass(countries, fye, n1.y))
                = DocumentBody(SecondPass(countries, fye, n2.y))

\* two compilations at different times of tables with an anchored deadline
\* and a fixed tax-filing date: different stamps, the same calculated_date
C20_Witness ==
    /\ pc = "sorted"
    /\ fye = FYE_2024_12_31
    /\ \E n1, n2 \in Clock :
          /\ strftime_stamp(n1) # strftime_stamp(n2)
          /\ \E i \in 1..Len(countries) :
                \E k \in 1..Len(countries[i].lf_tpd_deadlines) :
                    LET r1 == SecondPass(countries, fye, n1.y)[i].lf_tpd_deadlines[k]
                        r2 == SecondPass(countries, fye, n2.y)[i].lf_tpd_deadlines[k]
                    IN  /\ HasCalculatedDate(r1)
                        /\ r1.calculated_date = <<"2", "0", "2", "5", "-", "0", "3", "-", "3", "1">>
                        /\ r1 = r2

------------------------------------------------------------------------------
(* Claims about notifications and thresholds *)

\* a yes-value: yes, y, true or 1 in any case
YesValue(s) ==
    lower(s) \in {<<"y", "e", "s">>, <<"y">>, <<"t", "r", "u", "e">>, <<"1">>}

\* the notification rows read for a country, in source order
NotificationsSeen(key) ==
    LET own == SelectSeq(cbcr_seen, LAMBDA e : e[1] = key)
    IN  [k \in 1..Len(own) |-> own[k][2]]

\* required or included_in_cit of the row is a yes-value
Notifiable(row) == YesValue(row.required) \/ YesValue(row.included_in_cit)

\* C21: a country's notification (cbcr) is null in the compiled document
\* whenever none of its notification rows has required or included_in_cit
\* equal to a yes-value; a row where neither holds never sets it.
C21_NotificationSuppressed ==
    \A i \in 1..Len(Document) :
        (\A k \in 1..Len(NotificationsSeen(Document[i].key)) :
             ~Notifiable(NotificationsSeen(Document[i].key)[k]))
        => Document[i].cbcr = None

\* a document with a country whose only notification row has required "No"
\* and included_in_cit empty
C21_Witness ==
    /\ pc = "done"
    /\ \E i \in 1..Len(Document) :
          LET seen == NotificationsSeen(Document[i].key)
          IN  /\ Len(seen) = 1
              /\ seen[1].required = S_No /\ seen[1].included_in_cit = <<>>
              /\ Document[i].cbcr = None

\* C22: no threshold record of the compiled document has a non-empty operator
\* together with a null amount: a threshold row with an operator but no amount
\* is dropped, whatever its applicability field holds, and the run does not
\* fail.
C22_NoOperatorWithoutAmount ==
    /\ pc # "failed" => raised = None
    /\ \A i \in 1..Len(Document) :
          \A f \in {"lf_tpd_thresholds", "mf_thresholds"} :
              \A k \in 1..Len(Document[i][f]) :
                  ~(Document[i][f][k].op # <<>> /\ Document[i][f][k].amount = None)

\* the same for the records whose applicability field is a yes-value
C22_RequiredOperatorHasAmount ==
    \A i \in 1..Len(Document) :
        \A f \in {"lf_tpd_thresholds", "mf_thresholds"} :
            \A k \in 1..Len(Document[i][f]) :
                YesValue(Document[i][f][k].requirement_applies) =>
                    ~(Document[i][f][k].op # <<>> /\ Document[i][f][k].amount = None)

------------------------------------------------------------------------------
(* Direct calls of pack_threshold_row and validate_threshold_data *)

\* the cells tried for RequirementApplies, ThresholdOperator, ThresholdAmount
AppliesCells ==
    { NaN, Str(<<"Y", "e", "s">>), Str(<<"Y", "E", "S", " ">>), Str(<<"y">>), Str(<<"T", "r", "u", "e">>), Str(<<"1">>), Flt(10),
      Str(<<"N", "o">>), Str(<<"n", "/", "a">>), Str(<<"m", "a", "y", "b", "e">>) }

OperatorCells == { NaN, Str(<<">", "=">>), Str(<<" ">>) }

AmountCells == { NaN, Num(0), Flt(0), Str(<<"0">>), Num(100), Flt(5), Str(<<"a", "b", "c">>) }

ThresholdCells ==
    { [RequirementApplies |-> a, ThresholdOperator |-> o, ThresholdAmount |-> m,
       GroupID |-> Str(S_A), Seq |-> Num(1)] :
          a \in AppliesCells, o \in OperatorCells, m \in AmountCells }

InitValidate ==
    /\ calc_in \in ThresholdCells
    /\ fye = <<>>
    /\ cbcr_seen = <<>>
    /\ sheet_names = AllSheets
    /\ raised = None
    /\ emitted = <<>>
    /\ input_text = <<>>
    /\ cit_order = <<>>
    /\ country_map = <<>>
    /\ name_to_region = EmptyDict
    /\ code_to_name = EmptyDict
    /\ countries = <<>>
    /\ unmatched = {}
    /\ calls = {}
    /\ nrows = 0
    /\ compiled = None
    /\ pc = "validate"

\* row = pack_threshold_row(r); validate_threshold_data(row) (lines 403-405)
Validate ==
    /\ pc = "validate"
    /\ emitted' = <<[row |-> pack_threshold_row(calc_in),
                     valid |-> validate_threshold_data(pack_threshold_row(calc_in))]>>
    /\ pc' = "validated"
    /\ UNCHANGED <<cbcr_seen, sheet_names, raised, calc_in, cit_order, input_text, fye,
                   country_map, name_to_region, code_to_name, countries, unmatched, calls,
                   nrows, compiled>>

NextValidate == Validate

SpecValidate == InitValidate /\ [][NextValidate]_vars

\* the packed row and the verdict on it
PackedThreshold == emitted[1].row
Accepted == emitted[1].valid

\* C28: validate_threshold_data rejects a threshold row exactly when its
\* applicability field is a yes-value (yes, y, true, 1 in any case), its
\* operator is non-empty and its amount is null or zero; a required row with
\* an operator and amount 0 is dropped, one with blank applicability, an
\* operator and no amount is emitted with is_applicable true.
C28_ValidateThreshold ==
    pc = "validated" =>
        /\ ~Accepted <=> /\ YesValue(PackedThreshold.requirement_applies)
                         /\ PackedThreshold.op # <<>>
                         /\ (PackedThreshold.amount = None \/ PackedThreshold.amount[1] = 0)
        /\ ( /\ calc_in.RequirementApplies = Str(<<"Y", "e", "s">>)
             /\ calc_in.ThresholdOperator = Str(<<">", "=">>)
             /\ calc_in.ThresholdAmount = Num(0) ) => ~Accepted
        /\ ( /\ calc_in.RequirementApplies = NaN
             /\ calc_in.ThresholdOperator = Str(<<">", "=">>)
             /\ calc_in.ThresholdAmount = NaN ) =>
                Accepted /\ PackedThreshold.is_applicable

\* a required row with an operator and the amount 0 was rejected
C28_Witness ==
    /\ pc = "validated"
    /\ PackedThreshold.requirement_applies = <<"Y", "e", "s">>
    /\ PackedThreshold.op = <<">", "=">>
    /\ PackedThreshold.amount = Some(0)
    /\ ~Accepted

------------------------------------------------------------------------------
(* Claims about the tables of the workbook and the two passes *)

\* the seven tables a compilation cannot do without
RequiredTables ==
    {COUNTRY_REGIONS, LF_THRESHOLD, LF_DEADLINES, MF_THRESHOLD, MF_DEADLINES, TP_FORMS, CBCR}

MissingTables == RequiredTables \ sheet_names

\* C23: if one of the seven required tables is absent, compilation aborts
\* with an error naming a missing table and produces no document; if only the
\* optional tax-filing table is absent, compilation goes on, every country
\* has an empty cit_deadlines list and no record has a calculated_date.
C23_RequiredTables ==
    pc # "load" =>
        /\ MissingTables # {} =>
              /\ pc = "failed"
              /\ raised # None
              /\ raised[1].message[2] \in MissingTables
              /\ compiled = None
              /\ countries = <<>>
        /\ MissingTables = {} => pc # "failed" /\ raised = None
        /\ MissingTables = {} /\ CIT_DEADLINES \notin sheet_names =>
              /\ \A i \in 1..Len(Document) : Document[i].cit_deadlines = <<>>
              /\ \A rec \in AnchorableRecords(Document) : ~HasCalculatedDate(rec)

\* a document compiled, with a fiscal year end, from a workbook without the
\* tax-filing table and with a deadline that refers to the tax return
C23_Witness ==
    /\ pc = "done"
    /\ CIT_DEADLINES \notin sheet_names
    /\ fye # <<>>
    /\ \E rec \in AnchorableRecords(Document) : RefersToTaxReturn(rec)

\* a compilation that stopped at the first of two missing tables
C23_Aborted ==
    /\ pc = "failed"
    /\ MissingTables = {LF_THRESHOLD, MF_DEADLINES}
    /\ raised[1].message[2] = LF_THRESHOLD

\* some deadline, form or notification record has been enriched
SomeEnriched(cs) == \E rec \in AnchorableRecords(cs) : HasCalculatedDate(rec)

\* the tax-filing list of every country holds all the records read for it
CitListsComplete(cs) ==
    \A i \in 1..Len(cs) :
        /\ Len(cs[i].cit_deadlines) = Len(EncounteredCits(cs[i].key))
        /\ \A k \in 1..Len(EncounteredCits(cs[i].key)) :
               \E m \in 1..Len(cs[i].cit_deadlines) :
                   cs[i].cit_deadlines[m] = EncounteredCits(cs[i].key)[k]

\* C24: compilation is a strict two-pass pipeline. While rows are ingested
\* and sorted no record is enriched (no anchor is resolved inline); the first
\* enrichment happens in the step after the sort, when the tax-filing list of
\* every country is complete; from the sort on no row is ingested any more.
C24_TwoPass ==
    [][ /\ (Ingesting \/ pc = "sorted")' => ~SomeEnriched(countries')
        /\ SomeEnriched(countries') /\ ~SomeEnriched(countries) =>
               pc = "sorted" /\ CitListsComplete(countries)
        /\ pc \in {"sorted", "enriched", "done"} =>
               nrows' = nrows /\ cit_order' = cit_order /\ cbcr_seen' = cbcr_seen ]_vars

\* after the second pass: a country with two tax-filing records and an
\* enriched deadline
C24_Witness ==
    /\ pc = "enriched"
    /\ SomeEnriched(countries)
    /\ \E i \in 1..Len(countries) :
          /\ Len(countries[i].cit_deadlines) = 2
          /\ \E k \in 1..Len(countries[i].lf_tpd_deadlines) :
                HasCalculatedDate(countries[i].lf_tpd_deadlines[k])

\* the keys of the registry, in insertion order
KeysOf(cs) == [i \in 1..Len(cs) |-> cs[i].key]

\* no record of the registry carries the jurisdiction of the tax-filing row:
\* none has the name its token stands for, none the lowercased token as key
NoRecordFor(cs, r) ==
    LET j == clean(Cell(r, "Jurisdiction (3-letter code)"))
    IN  ~\E i \in 1..Len(cs) :
            \/ cs[i].name = DictGet(code_to_name, upper(j), j)
            \/ cs[i].key = lower(j)

\* C25: ingesting the tax-filing table never creates a Country Record: the
\* countries of the registry are the same before and after each of its rows,
\* and a row whose jurisdiction has no record yet (by exact name or by key
\* equal to the lowercased token) is dropped and not added to unmatched.
C25_CitCreatesNoCountry ==
    [][ \A r \in CitRows :
            IngestCit(r) =>
                /\ KeysOf(countries') = KeysOf(countries)
                /\ unmatched' = unmatched
                /\ NoRecordFor(countries, r) => countries' = countries ]_vars

\* a tax-filing row was read when the registry held Peru alone, which no
\* tax-filing row refers to
C25_Witness ==
    /\ pc = "cit"
    /\ nrows = 2
    /\ KeysOf(countries) = <<lower(Peru)>>
    /\ countries[1].cit_deadlines = <<>>
    /\ unmatched = {}

\* the fields the second pass may write
EnrichedFields == {"calculated_date", "month", "day", "month_name", "text"}

\* after is before, or before refers to the tax return and after differs from
\* it in the enriched fields only, in text only if before had none
OnlyEnriched(before, after) ==
    \/ after = before
    \/ /\ RefersToTaxReturn(before)
       /\ DOMAIN after = DOMAIN before \cup {"calculated_date"}
       /\ \A k \in DOMAIN before \ EnrichedFields : after[k] = before[k]
       /\ after.text # before.text => before.text = <<>>

\* the country after the second pass, against the country before it
CountryOnlyEnriched(before, after) ==
    /\ \A k \in DOMAIN before \ (AnchorableLists \cup {"cbcr"}) : after[k] = before[k]
    /\ DOMAIN after = DOMAIN before
    /\ \A f \in AnchorableLists :
          /\ Len(after[f]) = Len(before[f])
          /\ \A k \in 1..Len(before[f]) : OnlyEnriched(before[f][k], after[f][k])
    /\ Len(after.cbcr) = Len(before.cbcr)
    /\ before.cbcr # None => OnlyEnriched(before.cbcr[1], after.cbcr[1])

\* C26: the second pass changes nothing but calculated_date, month, day,
\* month_name and (only when empty) text of deadline, form and notification
\* records that refer to the tax return: it adds and removes no record and no
\* country, keeps the length and order of every list, and leaves thresholds,
\* tax-filing records and all other records as they were.
C26_SecondPassFrame ==
    [][ pc = "sorted" /\ pc' = "enriched" =>
            /\ Len(countries') = Len(countries)
            /\ \A i \in 1..Len(countries) :
                   CountryOnlyEnriched(countries[i], countries'[i]) ]_vars

\* after the second pass: a country with a threshold, a tax-filing record
\* and an enriched deadline
C26_Witness ==
    /\ pc = "enriched"
    /\ \E i \in 1..Len(countries) :
          /\ countries[i].lf_tpd_thresholds # <<>>
          /\ countries[i].cit_deadlines # <<>>
          /\ \E k \in 1..Len(countries[i].lf_tpd_deadlines) :
                HasCalculatedDate(countries[i].lf_tpd_deadlines[k])

\* the notifiable rows read for a country, in source order
NotifiableSeen(key) == SelectSeq(NotificationsSeen(key), Notifiable)

\* the notification a country holds after the rows read so far: none, or the
\* last notifiable row
KeptNotification(key) ==
    IF NotifiableSeen(key) = <<>> THEN None
    ELSE Some(NotifiableSeen(key)[Len(NotifiableSeen(key))])

\* C27: at every point of the compilation a country holds at most one
\* notification record, and it is the last row, in source order, whose
\* required or included_in_cit is a yes-value: a later row with a yes-value
\* replaces the stored one, a later row without one leaves it in place. The
\* second pass changes it only by enriching it.
C27_LastNotificationWins ==
    \A i \in 1..Len(countries) :
        LET kept == KeptNotification(countries[i].key)
        IN  /\ Len(countries[i].cbcr) <= 1
            /\ Len(countries[i].cbcr) = Len(kept)
            /\ kept # None =>
                  IF pc \in {"enriched", "done"}
                  THEN OnlyEnriched(kept[1], countries[i].cbcr[1])
                  ELSE countries[i].cbcr = kept

\* a country whose notification rows were read as required, then included in
\* the tax return only, then not required: it holds the second
C27_Witness ==
    \E i \in 1..Len(countries) :
        LET seen == NotificationsSeen(countries[i].key)
        IN  /\ Len(seen) = 3
            /\ YesValue(seen[1].required)
            /\ ~YesValue(seen[2].required) /\ YesValue(seen[2].included_in_cit)
            /\ ~Notifiable(seen[3])
            /\ countries[i].cbcr = Some(seen[2])
            /\ seen[2] # seen[1]

================================================================
